---- MODULE Spec2Model ----
(***************************************************************************)
(* Model of the per-user login / logout state machine and the authorized   *)
(* client cache of src/login.py (a Telethon bot).                          *)
(*                                                                         *)
(* Text is modelled as a sequence of one-character strings so that the     *)
(* regular expressions PHONE_RE and OTP_RE, str.strip and session_path     *)
(* are computed character by character, as the code computes them.         *)
(*                                                                         *)
(* One incoming message is dispatched to the registered handlers in        *)
(* registration order (status_cmd / login_cmd / stoplogin_cmd, then        *)
(* login_flow, then logout_cmd); each handler is one action.  Callback     *)
(* queries are dispatched to their single handler.                         *)
(***************************************************************************)
EXTENDS Integers, Sequences, FiniteSets, TLC

\* ------------------------------------------------------------------ bounds
NumUsers == 2
NumHashes == 2
NumChats == 2
MaxLinks == 4
NumAccounts == 1
PagedJoins == 23
MaxTime == 3

Users == 1..NumUsers
\* the chats a user administers, the ids table invite_links hands out, and
\* the account ids an importer can carry (0: the attribute is missing)
LinkIds == 1..MaxLinks
Accounts == 0..NumAccounts

\* --------------------------------------------------- program constants
PhoneMinDigits == 6
PhoneMaxDigits == 15
OtpMinDigits == 4
OtpMaxDigits == 8

\* ------------------------------------------------------------ text helpers
Digits == {"0", "1", "2", "3", "4", "5", "6", "7", "8", "9"}
Whitespace == {" "}

Lower(c) ==
    CASE c = "H" -> "h"
      [] c = "E" -> "e"
      [] c = "L" -> "l"
      [] c = "O" -> "o"
      [] OTHER -> c

AllDigits(s) == \A i \in 1..Len(s) : s[i] \in Digits

RECURSIVE LStrip(_)
LStrip(s) ==
    IF s # <<>> /\ Head(s) \in Whitespace THEN LStrip(Tail(s)) ELSE s

RECURSIVE RStrip(_)
RStrip(s) ==
    IF s # <<>> /\ s[Len(s)] \in Whitespace
    THEN RStrip(SubSeq(s, 1, Len(s) - 1))
    ELSE s

\* (e.raw_text or "").strip()
Strip(s) == RStrip(LStrip(s))

\* PHONE_RE with the upper bound of the repetition off by one: ^\+\d{6,14}$
PHONE_RE_max14(s) ==
    /\ Len(s) >= 1
    /\ s[1] = "+"
    /\ Len(s) - 1 >= PhoneMinDigits
    /\ Len(s) - 1 < PhoneMaxDigits
    /\ AllDigits(Tail(s))

\* PHONE_RE = ^\+\d{6,15}$
PHONE_RE(s) ==
    /\ Len(s) >= 1
    /\ s[1] = "+"
    /\ Len(s) - 1 >= PhoneMinDigits
    /\ Len(s) - 1 <= PhoneMaxDigits
    /\ AllDigits(Tail(s))

HelloTag == <<"h", "e", "l", "l", "o">>

HasHelloTag(s) ==
    /\ Len(s) >= Len(HelloTag)
    /\ \A i \in 1..Len(HelloTag) : Lower(s[i]) = HelloTag[i]

\* the text left once the optional (?:HELLO\s*) prefix has been consumed
OtpBody(s) ==
    IF HasHelloTag(s) THEN LStrip(SubSeq(s, Len(HelloTag) + 1, Len(s))) ELSE s

\* OTP_RE with the lower bound of the repetition off by one: (\d{3,8})
OTP_RE_min3(s) ==
    /\ Len(OtpBody(s)) >= OtpMinDigits - 1
    /\ Len(OtpBody(s)) <= OtpMaxDigits
    /\ AllDigits(OtpBody(s))

\* OTP_RE = ^(?:HELLO\s*)?(\d{4,8})$ : does the text match
OTP_RE(s) ==
    /\ Len(OtpBody(s)) >= OtpMinDigits
    /\ Len(OtpBody(s)) <= OtpMaxDigits
    /\ AllDigits(OtpBody(s))

IsDigit(c) == c \in Digits

\* session_path(uid, phone): "<uid>_<digits of phone>.session"
session_path(uid, phone) == [uid |-> uid, digits |-> SelectSeq(phone, IsDigit)]

\* ----------------------------------------------------------- the messages
PhoneA == <<"+", "1", "2", "3", "4", "5", "6">>
PhoneB == <<"+", "9", "8", "7", "6", "5", "4", "3", "2", "1", "0", "1", "2", "3", "4", "5">>
TaggedOtp == <<"H", "E", "L", "L", "O", "1", "2", "3", "4">>
CmdLogin == <<"/", "l", "o", "g", "i", "n">>
CmdStopLogin == <<"/", "s", "t", "o", "p", "l", "o", "g", "i", "n">>
CmdStatus == <<"/", "s", "t", "a", "t", "u", "s">>
CmdLogout == <<"/", "l", "o", "g", "o", "u", "t">>
CmdCreateLink == <<"/", "c", "r", "e", "a", "t", "e", "_", "l", "i", "n", "k">>
CmdRemoveLink == <<"/", "r", "e", "m", "o", "v", "e", "_", "l", "i", "n", "k">>
CmdStats == <<"/", "s", "t", "a", "t", "s">>
CmdHourStatus == <<"/", "h", "o", "u", "r", "_", "s", "t", "a", "t", "u", "s">>

Messages ==
    {PhoneA, PhoneB, TaggedOtp, CmdLogin, CmdStopLogin, CmdStatus, CmdLogout,
     \* a phone between blanks
     <<" ", "+", "1", "2", "3", "4", "5", "6", " ">>,
     \* 5 digits
     <<"+", "1", "2", "3", "4", "5">>,
     \* 16 digits
     <<"+", "9", "8", "7", "6", "5", "4", "3", "2", "1", "0", "1", "2", "3", "4", "5", "6">>,
     \* no plus sign
     <<"1", "2", "3", "4", "5", "6">>,
     \* lower-case tag, a blank, 8 digits
     <<"h", "e", "l", "l", "o", " ", "1", "2", "3", "4", "5", "6", "7", "8">>,
     \* 3 digits
     <<"H", "E", "L", "L", "O", "1", "2", "3">>,
     \* 9 digits
     <<"1", "2", "3", "4", "5", "6", "7", "8", "9">>,
     \* a password
     <<"p", "w">>}

\* ---------------------------------------------------------------- values
NoFile == [uid |-> 0, digits |-> <<>>]

\* uid not in login_state
NoEntry == [step |-> "idle", phone |-> <<>>, phone_code_hash |-> 0,
            twofa_session_path |-> NoFile]

\* no row in user_sessions
NoRow == [phone |-> <<>>, session_file |-> NoFile, is_active |-> FALSE]

\* uid not in USER_CLIENT_CACHE
NoClient == [present |-> FALSE, file |-> NoFile, connected |-> FALSE]

NoDispatch == [uid |-> 0, msg |-> <<>>, stage |-> "idle"]

NoSent == [phone |-> <<>>, hash |-> 0]

\* uid not in select_state
NoSelect == [mode |-> "none", pairs |-> <<>>, selected |-> {}, rows |-> <<>>,
             link_ids |-> <<>>]

\* no cb_pin_create_links handler of the user is suspended
NoPin == [stage |-> "idle", file |-> NoFile, key_ok |-> FALSE]

\* no login_flow handler of the user is suspended (phone: the phone it read
\* from the login_state entry before its first await)
NoFlow == [active |-> FALSE, phone |-> <<>>]

\* uid not in stats_state (since, until: 0 is None)
NoStats == [label |-> "none", since |-> 0, until |-> 0]

\* no sync_importers_to_db of the user is running (rows: the links the run
\* listed; i: the iteration of its loop; skipped: the links it skipped; msg,
\* link_id, st: the message, link and stats_state entry of the cb_stats_link
\* that awaits the run)
NoSync == [active |-> FALSE, rows |-> <<>>, i |-> 0, skipped |-> {},
           msg |-> 0, link_id |-> 0, st |-> NoStats]

\* the messages of a chat that carry a stats keyboard
MsgIds == {1, 2}

\* key not in stats_pages (since, until: 0 is None)
NoPage == [link_id |-> 0, label |-> "none", since |-> 0, until |-> 0,
           offset |-> 0, page_size |-> 0, total |-> 0, found |-> FALSE]

\* no stats_page callback on record (before: the context before the last
\* press on the message; action: the button pressed; offset, total: what the
\* render that ended last had read)
NoPress == [before |-> NoPage, action |-> "none", offset |-> 0, total |-> 0]

VARIABLES
    login_state,        \* uid -> login progress (NoEntry when absent)
    user_sessions,      \* uid -> row of table user_sessions (NoRow when absent)
    USER_CLIENT_CACHE,  \* uid -> cached user client (NoClient when absent)
    session_files,      \* the .session files that exist under SESSION_DIR
    authorized_keys,    \* the .session files whose key the platform accepts
    buttons,            \* uid -> the inline buttons the bot has shown the user
    dispatch,           \* the message being dispatched to the handlers
    logged_out,         \* uid -> logout completed and no session persisted since
    last,               \* the handler that ran last and what it did
    select_state,       \* uid -> selection workflow (NoSelect when absent)
    stats_state,        \* uid -> pending stats request (NoStats when absent)
    invite_links,       \* rows of table invite_links, newest created_at first
    link_seq,           \* the last id table invite_links handed out
    joins,              \* rows of table joins
    importers,          \* link -> the importers the platform reports for it
    pin_task,           \* uid -> suspended cb_pin_create_links handler
    sync_task,          \* uid -> running sync_importers_to_db
    stats_pages,        \* (uid, message id) -> stats page context (NoPage)
    page_kb,            \* (uid, message id) -> buttons the stats message shows
    render_task,        \* (uid, message id) -> offsets of the renders under way
    plan_active,        \* uid -> the user's subscription has not expired
    flow_task           \* uid -> login_flow handler suspended in its OTP step

pageVars == <<stats_pages, page_kb, render_task>>

linkVars == <<select_state, stats_state, invite_links, link_seq, joins,
              importers, pin_task, sync_task, pageVars, plan_active, flow_task>>

vars == <<login_state, user_sessions, USER_CLIENT_CACHE, session_files,
          authorized_keys, buttons, dispatch, logged_out, last, linkVars>>

NoLast == [op |-> "init", uid |-> 0, step |-> "idle", path |-> "none",
           calls |-> {}, sent |-> NoSent, client |-> "none", sel |-> {},
           arg |-> 0, again |-> FALSE, page |-> NoPress,
           query |-> ([since |-> 0, until |-> 0, count |-> 0, fetched |-> {}]), dialogs |-> <<>>, pairs |-> <<>>,
           connects |-> <<>>]

Init ==
    /\ login_state = [u \in Users |-> NoEntry]
    /\ user_sessions = [u \in Users |-> NoRow]
    /\ USER_CLIENT_CACHE = [u \in Users |-> NoClient]
    /\ session_files = {}
    /\ authorized_keys = {}
    /\ buttons = [u \in Users |-> {}]
    /\ dispatch = NoDispatch
    /\ logged_out = [u \in Users |-> FALSE]
    /\ last = NoLast
    /\ select_state = [u \in Users |-> NoSelect]
    /\ stats_state = [u \in Users |-> NoStats]
    /\ invite_links = <<>>
    /\ link_seq = 0
    /\ joins = {}
    /\ importers = [l \in LinkIds |-> {}]
    /\ pin_task = [u \in Users |-> NoPin]
    /\ sync_task = [u \in Users |-> NoSync]
    /\ stats_pages = [u \in Users |-> [m \in MsgIds |-> NoPage]]
    /\ page_kb = [u \in Users |-> [m \in MsgIds |-> {}]]
    /\ render_task = [u \in Users |-> [m \in MsgIds |-> {}]]
    /\ plan_active = [u \in Users |-> TRUE]
    /\ flow_task = [u \in Users |-> NoFlow]

\* ------------------------------------------------ outcomes of external calls

\* An outcome o of a handler run has three fields.  fail: the call that
\* raises; sign_in: the result of sign_in; hash: the phone_code_hash of the
\* SentCode (0: the attribute is missing).

\* ------------------------------------------------------------ store helpers
\* sp_upsert_session writing a payload without "is_active": True
sp_upsert_session_inactive(rows, uid, phone, session_file) ==
    [rows EXCEPT ![uid] = [phone |-> phone, session_file |-> session_file,
                           is_active |-> FALSE]]

\* sp_upsert_session: the row written for uid (created_at is not modelled)
sp_upsert_session(rows, uid, phone, session_file) ==
    [rows EXCEPT ![uid] = [phone |-> phone, session_file |-> session_file,
                           is_active |-> TRUE]]

\* a delete without the user_id filter: every Session row goes
sp_delete_session_all(rows, uid) == [u \in Users |-> NoRow]

\* sp_delete_session
sp_delete_session(rows, uid) == [rows EXCEPT ![uid] = NoRow]

\* sp_get_session(uid) found a row
HasSession(uid) == user_sessions[uid] # NoRow

\* uid in login_state
InLogin(uid) == login_state[uid] # NoEntry

\* ---------------------------------------------------------- get_user_client
\* The result of get_user_client(uid) when the call named by fail raises:
\* ok (a client was returned), the cache and the session files afterwards.
\* TelegramClient(local, ...) creates the .session file when it is missing.
get_user_client(uid, fail) ==
    LET c == USER_CLIENT_CACHE[uid]
        local == user_sessions[uid].session_file
        raised(files, calls) ==
            [ok |-> FALSE, cache |-> USER_CLIENT_CACHE, files |-> files,
             calls |-> calls]
    IN  IF c.present /\ c.connected
        THEN [ok |-> TRUE, cache |-> USER_CLIENT_CACHE,
              files |-> session_files, calls |-> {}]
        ELSE IF fail = "sp_get_session" \/ ~HasSession(uid)
        THEN raised(session_files, {})
        ELSE IF fail = "connect"
        THEN raised(session_files \cup {local}, {"connect"})
        ELSE IF fail = "is_user_authorized" \/ local \notin authorized_keys
        THEN raised(session_files \cup {local}, {"connect", "is_user_authorized"})
        ELSE [ok |-> TRUE,
              cache |-> [USER_CLIENT_CACHE EXCEPT ![uid] =
                            [present |-> TRUE, file |-> local, connected |-> TRUE]],
              files |-> session_files \cup {local},
              calls |-> {"connect", "is_user_authorized"}]

GucFails == {"none", "sp_get_session", "connect", "is_user_authorized"}

ClientResult(r) == IF r.ok THEN "ok" ELSE "fail"

\* ------------------------------------------------------------- login_flow
\* What one step of login_flow leaves behind: the user's login_state entry,
\* the user_sessions table, the files and keys, the branch taken (named after the reply the bot sends), the user-client and
\* store calls made, and the phone / hash of a send_code_request.
FlowResult(entry, rows, files, keys, path, calls, sent) ==
    [entry |-> entry, rows |-> rows, files |-> files, keys |-> keys,
     path |-> path, calls |-> calls, sent |-> sent]

\* STEP: phone number (st["step"] == "phone")
login_flow_phone(uid, msg, o) ==
    LET st == login_state[uid]
        phone == msg
        local == session_path(uid, phone)
        files == session_files \cup {local}
        st1 == [st EXCEPT !.phone = phone]
        st2 == [st1 EXCEPT !.phone_code_hash = o.hash]
        upserted == sp_upsert_session(user_sessions, uid, phone, local)
        sentCode == [phone |-> phone, hash |-> o.hash]
    IN  IF ~PHONE_RE(msg)
        THEN FlowResult(st, user_sessions, session_files, authorized_keys,
                        "invalid_phone", {}, NoSent)
        ELSE IF o.fail = "connect"
        THEN FlowResult(st1, user_sessions, files, authorized_keys,
                        "otp_send_error", {"connect"}, NoSent)
        ELSE IF o.fail = "is_user_authorized"
        THEN FlowResult(st1, user_sessions, files, authorized_keys,
                        "otp_send_error",
                        {"connect", "is_user_authorized"}, NoSent)
        ELSE IF local \in authorized_keys
        THEN IF o.fail = "get_me"
             THEN FlowResult(st1, user_sessions, files, authorized_keys,
                             "otp_send_error",
                             {"connect", "is_user_authorized", "get_me"}, NoSent)
             ELSE IF o.fail = "sp_upsert_session"
             THEN FlowResult(st1, user_sessions, files, authorized_keys,
                             "otp_send_error",
                             {"connect", "is_user_authorized", "get_me",
                              "sp_upsert_session"}, NoSent)
             ELSE IF o.fail = "respond"
             THEN FlowResult(st1, upserted, files, authorized_keys,
                             "otp_send_error",
                             {"connect", "is_user_authorized", "get_me",
                              "sp_upsert_session"}, NoSent)
             ELSE FlowResult(NoEntry, upserted, files, authorized_keys,
                             "already_authorized",
                             {"connect", "is_user_authorized", "get_me",
                              "sp_upsert_session"}, NoSent)
        ELSE IF o.fail = "send_code_request"
        THEN FlowResult(st1, user_sessions, files, authorized_keys,
                        "otp_send_error",
                        {"connect", "is_user_authorized", "send_code_request"},
                        NoSent)
        ELSE IF o.fail = "respond"
        THEN FlowResult(st2, user_sessions, files, authorized_keys,
                        "otp_send_error",
                        {"connect", "is_user_authorized", "send_code_request"},
                        sentCode)
        ELSE FlowResult([st2 EXCEPT !.step = "otp"], user_sessions, files,
                        authorized_keys, "code_sent",
                        {"connect", "is_user_authorized", "send_code_request"},
                        sentCode)

\* STEP: OTP (st["step"] == "otp")
login_flow_otp(uid, msg, o) ==
    LET st == login_state[uid]
        phone == st.phone
        code_hash == st.phone_code_hash
        local == session_path(uid, phone)
        files == session_files \cup {local}
        keys == authorized_keys \cup {local}
        upserted == sp_upsert_session(user_sessions, uid, phone, local)
        used == [phone |-> phone, hash |-> code_hash]
    IN  IF ~OTP_RE(msg)
        THEN FlowResult(st, user_sessions, session_files, authorized_keys,
                        "invalid_otp", {}, NoSent)
        ELSE IF phone = <<>>
        THEN FlowResult(NoEntry, user_sessions, session_files, authorized_keys,
                        "phone_missing", {}, NoSent)
        ELSE IF code_hash = 0
        THEN FlowResult(NoEntry, user_sessions, session_files, authorized_keys,
                        "code_session_expired", {}, NoSent)
        ELSE IF o.fail = "connect"
        THEN FlowResult(st, user_sessions, files, authorized_keys,
                        "login_failed", {"connect"}, NoSent)
        ELSE IF o.sign_in = "ok"
        THEN IF o.fail = "get_me"
             THEN FlowResult(st, user_sessions, files, keys, "login_failed", {"connect", "sign_in", "get_me"},
                             used)
             ELSE IF o.fail = "sp_upsert_session"
             THEN FlowResult(st, user_sessions, files, keys, "login_failed",
                             {"connect", "sign_in", "get_me", "sp_upsert_session"},
                             used)
             ELSE IF o.fail = "respond"
             THEN FlowResult(st, upserted, files, keys, "login_failed",
                             {"connect", "sign_in", "get_me", "sp_upsert_session"},
                             used)
             ELSE FlowResult(NoEntry, upserted, files, keys, "signed_in",
                             {"connect", "sign_in", "get_me", "sp_upsert_session"},
                             used)
        ELSE IF o.sign_in = "SessionPasswordNeeded"
        THEN FlowResult([st EXCEPT !.step = "2fa", !.twofa_session_path = local],
                        user_sessions, files, authorized_keys, "need_2fa", {"connect", "sign_in", "GetPasswordRequest"},
                        used)
        ELSE IF o.sign_in = "PhoneCodeInvalid"
        THEN FlowResult(st, user_sessions, files, authorized_keys, "wrong_code", {"connect", "sign_in"}, used)
        ELSE FlowResult(st, user_sessions, files, authorized_keys, "login_failed", {"connect", "sign_in"}, used)

\* STEP: 2FA password (st["step"] == "2fa"); the finally clause pops the
\* entry on every path that reaches the try statement
login_flow_2fa(uid, msg, o) ==
    LET st == login_state[uid]
        phone == st.phone
        local == IF st.twofa_session_path # NoFile
                 THEN st.twofa_session_path
                 ELSE session_path(uid, phone)
        files == session_files \cup {local}
        keys == authorized_keys \cup {local}
        upserted == sp_upsert_session(user_sessions, uid, phone, local)
    IN  IF phone = <<>>
        THEN FlowResult(NoEntry, user_sessions, session_files, authorized_keys,
                        "session_expired", {}, NoSent)
        ELSE IF o.fail = "connect"
        THEN FlowResult(NoEntry, user_sessions, files, authorized_keys,
                        "twofa_failed", {"connect"}, NoSent)
        ELSE IF o.sign_in = "ok"
        THEN IF o.fail = "get_me"
             THEN FlowResult(NoEntry, user_sessions, files, keys, "twofa_failed", {"connect", "sign_in", "get_me"},
                             NoSent)
             ELSE IF o.fail = "sp_upsert_session"
             THEN FlowResult(NoEntry, user_sessions, files, keys, "twofa_failed",
                             {"connect", "sign_in", "get_me", "sp_upsert_session"},
                             NoSent)
             ELSE IF o.fail = "respond"
             THEN FlowResult(NoEntry, upserted, files, keys, "twofa_failed",
                             {"connect", "sign_in", "get_me", "sp_upsert_session"},
                             NoSent)
             ELSE FlowResult(NoEntry, upserted, files, keys, "twofa_verified",
                             {"connect", "sign_in", "get_me", "sp_upsert_session"},
                             NoSent)
        ELSE IF o.sign_in = "PasswordHashInvalid"
        THEN FlowResult(NoEntry, user_sessions, files, authorized_keys,
                        "wrong_password", {"connect", "sign_in"},
                        NoSent)
        ELSE FlowResult(NoEntry, user_sessions, files, authorized_keys,
                        "twofa_failed", {"connect", "sign_in"},
                        NoSent)

\* login_flow: the step is chosen by st["step"]; a user who is not in
\* login_state is ignored
login_flow(uid, msg, o) ==
    LET st == login_state[uid]
    IN  IF st.step = "phone" THEN login_flow_phone(uid, msg, o)
        ELSE IF st.step = "otp" THEN login_flow_otp(uid, msg, o)
        ELSE IF st.step = "2fa" THEN login_flow_2fa(uid, msg, o)
        ELSE FlowResult(st, user_sessions, session_files, authorized_keys,
                        "not_in_login", {}, NoSent)

\* --------------------------------------------------------------- dispatch
\* the handlers registered before login_flow whose pattern matches the text
FirstStage(msg) ==
    IF msg = CmdStatus THEN "status_cmd"
    ELSE IF msg = CmdLogin THEN "login_cmd"
    ELSE IF msg = CmdStopLogin THEN "stoplogin_cmd"
    ELSE "login_flow"

\* the handlers registered after login_flow whose pattern matches the text
StageAfterFlow(msg) ==
    IF msg = CmdLogout THEN "logout_cmd"
    ELSE IF msg = CmdCreateLink THEN "create_link_cmd"
    ELSE IF msg = CmdRemoveLink THEN "remove_link_cmd"
    ELSE IF msg = CmdStats THEN "stats_all_cmd"
    ELSE IF msg = CmdHourStatus THEN "stats_hour_cmd"
    ELSE "idle"

Advance(stage) ==
    IF stage = "idle" THEN NoDispatch ELSE [dispatch EXCEPT !.stage = stage]

\* the handler that ran, for whom, the step the user was in when it started,
\* the branch it took, the user-client and store calls it made, the phone /
\* hash of its code request or sign_in, and the result of its
\* get_user_client call.  sel and again are set by cb_toggle: the selection
\* before the toggle, and whether the handler that ran before it was a
\* toggle of the same button by the same user; a sync iteration sets sel to
\* the links its run skipped before.
Record(op, uid, path, calls, sent, client) ==
    [op |-> op, uid |-> uid, step |-> login_state[uid].step, path |-> path,
     calls |-> calls, sent |-> sent, client |-> client,
     sel |-> {}, arg |-> 0, again |-> FALSE, page |-> NoPress,
     query |-> ([since |-> 0, until |-> 0, count |-> 0, fetched |-> {}]), dialogs |-> <<>>, pairs |-> <<>>,
           connects |-> <<>>]

\* a user sends a text message to the bot
NewMessage(uid, msg) ==
    /\ dispatch = NoDispatch
    /\ dispatch' = [uid |-> uid, msg |-> msg, stage |-> FirstStage(msg)]
    /\ UNCHANGED linkVars
    /\ last' = Record("NewMessage", uid, "none", {}, NoSent, "none")
    /\ UNCHANGED <<login_state, user_sessions, USER_CLIENT_CACHE, session_files,
                   authorized_keys, logged_out, buttons>>

\* a user who is not logging in sends a command: login_flow returns at once
\* (uid not in login_state) and the handler of the command is next
NewCommand(uid, msg) ==
    /\ dispatch = NoDispatch
    /\ ~InLogin(uid)
    /\ FirstStage(msg) = "login_flow"
    /\ StageAfterFlow(msg) # "idle"
    /\ dispatch' = [uid |-> uid, msg |-> msg, stage |-> StageAfterFlow(msg)]
    /\ UNCHANGED linkVars
    /\ last' = Record("NewMessage", uid, "none", {}, NoSent, "none")
    /\ UNCHANGED <<login_state, user_sessions, USER_CLIENT_CACHE, session_files,
                   authorized_keys, logged_out, buttons>>

\* ---------------------------------------------------------------- handlers
status_cmd(fail) ==
    LET uid == dispatch.uid
        r == get_user_client(uid, fail)
        found == fail # "sp_get_session" /\ HasSession(uid)
    IN  /\ dispatch.stage = "status_cmd"
        /\ USER_CLIENT_CACHE' = IF found THEN r.cache ELSE USER_CLIENT_CACHE
        /\ session_files' = IF found THEN r.files ELSE session_files
        /\ dispatch' = Advance("login_flow")
        /\ UNCHANGED linkVars
        /\ last' = Record("status_cmd", uid,
                          IF ~found THEN "not_logged_in"
                          ELSE IF r.ok THEN "logged_in" ELSE "not_authorized",
                          IF found THEN r.calls ELSE {},
                          NoSent, IF found THEN ClientResult(r) ELSE "none")
        /\ UNCHANGED <<login_state, user_sessions, authorized_keys, logged_out,
                       buttons>>

\* login_cmd restarting the entry the user already has: st["step"] = "phone"
restart_login_state(uid) == [login_state[uid] EXCEPT !.step = "phone"]

\* login_state[uid] = {"step": "phone", "phone": None} of login_cmd
new_login_state(uid) ==
    [step |-> "phone", phone |-> <<>>, phone_code_hash |-> 0,
     twofa_session_path |-> NoFile]

\* is_logged_in judging by the Session row alone
is_logged_in_by_row(r, uid) == HasSession(uid)

\* is_logged_in(uid) of a get_user_client call with result r: True when the
\* call returned a client, False when it raised
is_logged_in(r, uid) == r.ok

login_cmd(fail) ==
    LET uid == dispatch.uid
        r == get_user_client(uid, fail)
    IN  /\ dispatch.stage = "login_cmd"
        /\ USER_CLIENT_CACHE' = r.cache
        /\ session_files' = r.files
        /\ login_state' =
              IF is_logged_in(r, uid) THEN login_state
              ELSE [login_state EXCEPT ![uid] = new_login_state(uid)]
        /\ dispatch' = Advance("login_flow")
        /\ UNCHANGED linkVars
        /\ last' = Record("login_cmd", uid,
                          IF is_logged_in(r, uid) THEN "already_logged_in"
                          ELSE "send_phone",
                          r.calls, NoSent, ClientResult(r))
        /\ UNCHANGED <<user_sessions, authorized_keys, logged_out, buttons>>

\* stoplogin_cmd clearing the whole dictionary: login_state.clear()
stoplogin_clear(uid) == [u \in Users |-> NoEntry]

\* login_state.pop(uid, None) of stoplogin_cmd
stoplogin_pop(uid) == [login_state EXCEPT ![uid] = NoEntry]

stoplogin_cmd ==
    LET uid == dispatch.uid
    IN  /\ dispatch.stage = "stoplogin_cmd"
        /\ login_state' = stoplogin_pop(uid)
        /\ dispatch' = Advance("login_flow")
        /\ UNCHANGED linkVars
        /\ last' = Record("stoplogin_cmd", uid,
                          IF InLogin(uid) THEN "login_cancelled"
                          ELSE "no_login_in_progress",
                          {}, NoSent, "none")
        /\ UNCHANGED <<user_sessions, USER_CLIENT_CACHE, session_files,
                       authorized_keys, logged_out, buttons>>

LoginFlow(o) ==
    LET uid == dispatch.uid
        r == login_flow(uid, Strip(dispatch.msg), o)
    IN  /\ dispatch.stage = "login_flow"
        /\ login_state' = [login_state EXCEPT ![uid] = r.entry]
        /\ user_sessions' = r.rows
        /\ session_files' = r.files
        /\ authorized_keys' = r.keys
        /\ logged_out' = [logged_out EXCEPT ![uid] = @ /\ r.rows[uid] = NoRow]
        /\ dispatch' = Advance(StageAfterFlow(dispatch.msg))
        /\ buttons' = IF r.path = "code_sent"
                      THEN [buttons EXCEPT ![uid] = @ \cup {"resend_otp"}]
                      ELSE buttons
        /\ UNCHANGED linkVars
        /\ last' = Record("login_flow", uid, r.path, r.calls, r.sent, "none")
        /\ UNCHANGED USER_CLIENT_CACHE

\* cb_resend_otp that drops the phone_code_hash of the new SentCode
cb_resend_otp_keeps_hash(uid, o) ==
    LET st == login_state[uid]
        phone == st.phone
        local == session_path(uid, phone)
        files == session_files \cup {local}
        sentCode == [phone |-> phone, hash |-> o.hash]
    IN  IF st = NoEntry \/ phone = <<>>
        THEN FlowResult(st, user_sessions, session_files, authorized_keys,
                        "no_login_in_progress", {}, NoSent)
        ELSE IF o.fail = "connect"
        THEN FlowResult(st, user_sessions, files, authorized_keys,
                        "resend_failed", {"connect"}, NoSent)
        ELSE IF o.fail = "send_code_request"
        THEN FlowResult(st, user_sessions, files, authorized_keys,
                        "resend_failed", {"connect", "send_code_request"},
                        NoSent)
        ELSE FlowResult(st, user_sessions, files, authorized_keys,
                        IF o.fail = "respond" THEN "resend_failed"
                        ELSE "otp_resent",
                        {"connect", "send_code_request"}, sentCode)

\* cb_resend_otp: not guarded by the step, only by a stored phone
cb_resend_otp(uid, o) ==
    LET st == login_state[uid]
        phone == st.phone
        local == session_path(uid, phone)
        files == session_files \cup {local}
        sentCode == [phone |-> phone, hash |-> o.hash]
    IN  IF st = NoEntry \/ phone = <<>>
        THEN FlowResult(st, user_sessions, session_files, authorized_keys,
                        "no_login_in_progress", {}, NoSent)
        ELSE IF o.fail = "connect"
        THEN FlowResult(st, user_sessions, files, authorized_keys,
                        "resend_failed", {"connect"}, NoSent)
        ELSE IF o.fail = "send_code_request"
        THEN FlowResult(st, user_sessions, files, authorized_keys,
                        "resend_failed", {"connect", "send_code_request"},
                        NoSent)
        ELSE FlowResult([st EXCEPT !.phone_code_hash = o.hash], user_sessions,
                        files, authorized_keys,
                        IF o.fail = "respond" THEN "resend_failed"
                        ELSE "otp_resent",
                        {"connect", "send_code_request"}, sentCode)

\* The user presses "Resend OTP".  An inline button stays pressable for as
\* long as its message exists, so once shown it can be pressed in any state.
CallbackResendOtp(uid, o) ==
    LET r == cb_resend_otp(uid, o)
    IN  /\ dispatch = NoDispatch
        /\ "resend_otp" \in buttons[uid]
        /\ login_state' = [login_state EXCEPT ![uid] = r.entry]
        /\ session_files' = r.files
        /\ UNCHANGED linkVars
        /\ last' = Record("cb_resend_otp", uid, r.path, r.calls, r.sent, "none")
        /\ UNCHANGED <<user_sessions, USER_CLIENT_CACHE, authorized_keys,
                       dispatch, logged_out, buttons>>

logout_cmd(fail) ==
    LET uid == dispatch.uid
        r == get_user_client(uid, fail)
    IN  /\ dispatch.stage = "logout_cmd"
        /\ USER_CLIENT_CACHE' = r.cache
        /\ session_files' = r.files
        /\ buttons' = IF r.ok
                      THEN [buttons EXCEPT ![uid] = @ \cup {"logout"}]
                      ELSE buttons
        /\ dispatch' = NoDispatch
        /\ UNCHANGED linkVars
        /\ last' = Record("logout_cmd", uid,
                          IF r.ok THEN "are_you_sure" ELSE "not_logged_in",
                          r.calls, NoSent, ClientResult(r))
        /\ UNCHANGED <<login_state, user_sessions, authorized_keys, logged_out>>

\* what logout_confirm_cb leaves behind when the call named by fail raises
logout_confirm_cb(uid, fail) ==
    LET data == user_sessions[uid]
        path == data.session_file
        cache == [USER_CLIENT_CACHE EXCEPT ![uid] = NoClient]
        removed == path \in session_files /\ fail # "os_remove"
        files == IF removed THEN session_files \ {path} ELSE session_files
        keys == IF removed THEN authorized_keys \ {path} ELSE authorized_keys
        calls == IF USER_CLIENT_CACHE[uid].present THEN {"disconnect"} ELSE {}
    IN  IF fail = "sp_get_session"
        THEN [cache |-> USER_CLIENT_CACHE, files |-> session_files,
              keys |-> authorized_keys, rows |-> user_sessions,
              path |-> "error", calls |-> {}]
        ELSE IF data = NoRow
        THEN [cache |-> USER_CLIENT_CACHE, files |-> session_files,
              keys |-> authorized_keys, rows |-> user_sessions,
              path |-> "no_session_found", calls |-> {}]
        ELSE IF fail = "sp_delete_session"
        THEN [cache |-> cache, files |-> files, keys |-> keys,
              rows |-> user_sessions, path |-> "error", calls |-> calls]
        ELSE [cache |-> cache, files |-> files, keys |-> keys,
              rows |-> sp_delete_session(user_sessions, uid),
              path |-> "logged_out", calls |-> calls]

\* the user presses "Yes, logout"
CallbackLogoutConfirm(uid, fail) ==
    LET r == logout_confirm_cb(uid, fail)
    IN  /\ dispatch = NoDispatch
        /\ "logout" \in buttons[uid]
        /\ USER_CLIENT_CACHE' = r.cache
        /\ session_files' = r.files
        /\ authorized_keys' = r.keys
        /\ user_sessions' = r.rows
        /\ logged_out' = [logged_out EXCEPT ![uid] = @ \/ r.path = "logged_out"]
        /\ UNCHANGED linkVars
        /\ last' = Record("logout_confirm_cb", uid, r.path, r.calls, NoSent,
                          "none")
        /\ UNCHANGED <<login_state, dispatch, buttons>>

\* logout_cancel_cb that drops the cached client as logout_confirm_cb does
logout_cancel_cb_pops(uid) ==
    /\ dispatch = NoDispatch
    /\ "logout" \in buttons[uid]
    /\ USER_CLIENT_CACHE' = [USER_CLIENT_CACHE EXCEPT ![uid] = NoClient]
    /\ UNCHANGED linkVars
    /\ last' = Record("logout_cancel_cb", uid, "logout_cancelled", {}, NoSent,
                      "none")
    /\ UNCHANGED <<login_state, user_sessions, session_files, authorized_keys,
                   dispatch, logged_out, buttons>>

\* the user presses "Cancel" under the logout question
logout_cancel_cb(uid) ==
    /\ dispatch = NoDispatch
    /\ "logout" \in buttons[uid]
    /\ UNCHANGED linkVars
    /\ last' = Record("logout_cancel_cb", uid, "logout_cancelled", {}, NoSent,
                      "none")
    /\ UNCHANGED <<login_state, user_sessions, USER_CLIENT_CACHE, session_files,
                   authorized_keys, dispatch, logged_out, buttons>>

\* ------------------------------------------------------ invite link store
\* A row of invite_links is [id, user_id, chat_id].  Every
\* ExportChatInviteRequest returns a new link, so the URL of a row is
\* identified with the id of the row; every row is saved with is_active
\* True and no code sets it to False.  The sequence keeps the rows in the
\* order of sp_list_invite_links: created_at descending.
sp_list_invite_links(uid) ==
    SelectSeq(invite_links, LAMBDA r : r.user_id = uid)

sp_save_invite_link(links, id, uid, chat_id) ==
    <<[id |-> id, user_id |-> uid, chat_id |-> chat_id]>> \o links

\* the elements of a sequence
Range(seq) == {seq[k] : k \in DOMAIN seq}

\* sp_soft_delete_links that deletes the link rows and leaves their joins
sp_soft_delete_links_keeps_joins(uid, link_ids, fail) ==
    IF link_ids = <<>> \/ fail = "delete_joins"
    THEN [links |-> invite_links, joins |-> joins, raised |-> link_ids # <<>>]
    ELSE [links |-> SelectSeq(invite_links,
                       LAMBDA r : ~(r.user_id = uid /\ r.id \in Range(link_ids))),
          joins |-> joins, raised |-> FALSE]

\* the tables after sp_soft_delete_links when the request named by fail
\* raises: first the join rows are deleted, then the link rows
sp_soft_delete_links(uid, link_ids, fail) ==
    LET ids == Range(link_ids)
        joins1 == {j \in joins : ~(j.user_id = uid /\ j.invite_link_id \in ids)}
        links1 == SelectSeq(invite_links,
                      LAMBDA r : ~(r.user_id = uid /\ r.id \in ids))
    IN  IF link_ids = <<>>
        THEN [links |-> invite_links, joins |-> joins, raised |-> FALSE]
        ELSE IF fail = "delete_joins"
        THEN [links |-> invite_links, joins |-> joins, raised |-> TRUE]
        ELSE IF fail = "delete_links"
        THEN [links |-> invite_links, joins |-> joins1, raised |-> TRUE]
        ELSE [links |-> links1, joins |-> joins1, raised |-> FALSE]

\* sp_replace_joins_for_link that inserts without deleting (a merge)
sp_replace_joins_for_link_merges(uid, invite_link_id, rows, fail) ==
    IF fail \in {"delete", "insert"} /\ rows # {}
    THEN [joins |-> joins, raised |-> TRUE]
    ELSE [joins |-> joins \cup rows, raised |-> FALSE]

\* table joins after sp_replace_joins_for_link when the request named by
\* fail raises: delete the rows of the link, then insert rows if there are any
sp_replace_joins_for_link(uid, invite_link_id, rows, fail) ==
    LET kept == {j \in joins :
                    ~(j.user_id = uid /\ j.invite_link_id = invite_link_id)}
    IN  IF fail = "delete"
        THEN [joins |-> joins, raised |-> TRUE]
        ELSE IF rows = {}
        THEN [joins |-> kept, raised |-> FALSE]
        ELSE IF fail = "insert"
        THEN [joins |-> kept, raised |-> TRUE]
        ELSE [joins |-> kept \cup rows, raised |-> FALSE]

\* ------------------------------------------------------ selection workflow
\* sorted(st["selected"])
RECURSIVE sorted(_)
sorted(S) ==
    IF S = {} THEN <<>>
    ELSE LET m == CHOOSE x \in S : \A y \in S : x <= y
         IN  <<m>> \o sorted(S \ {m})

\* a history record that also carries the argument of the callback (the
\* index of msel:<i>, the link of a sync iteration, the number of links a
\* cancelled confirmation held)
RecordArg(op, uid, path, calls, client, arg) ==
    [Record(op, uid, path, calls, NoSent, client) EXCEPT !.arg = arg]

\* is_logged_in and require_active_plan, then the button of the pin prompt
create_link_cmd(fail, plan) ==
    LET uid == dispatch.uid
        r == get_user_client(uid, fail)
    IN  /\ dispatch.stage = "create_link_cmd"
        /\ plan => plan_active[dispatch.uid]
        /\ USER_CLIENT_CACHE' = r.cache
        /\ session_files' = r.files
        /\ buttons' = IF r.ok /\ plan
                      THEN [buttons EXCEPT ![uid] = @ \cup {"pin_create_links"}]
                      ELSE buttons
        /\ dispatch' = NoDispatch
        /\ last' = Record("create_link_cmd", uid,
                          IF ~r.ok THEN "please_login"
                          ELSE IF ~plan THEN "no_active_plan" ELSE "pin_prompt",
                          r.calls, NoSent, ClientResult(r))
        /\ UNCHANGED <<login_state, user_sessions, authorized_keys, logged_out,
                       linkVars>>

\* the set the toggle of cb_toggle leaves when it adds and never removes
toggle_add_only(sel, idx) == sel \cup {idx}

\* sel.remove(idx) if idx in sel else sel.add(idx)
toggle(sel, idx) == IF idx \in sel THEN sel \ {idx} ELSE sel \cup {idx}

\* the user presses button i of a multi-select keyboard (data msel:<i>)
cb_toggle(uid, i) ==
    LET st == select_state[uid]
        idx == i - 1
        path == IF st = NoSelect THEN "session_expired"
                ELSE IF st.mode = "remove_confirm" THEN "key_error"
                ELSE IF idx < 0 \/ idx >= Len(st.pairs) THEN "out_of_range"
                ELSE "toggled"
    IN  /\ dispatch = NoDispatch
        /\ "msel" \in buttons[uid]
        /\ select_state' =
              IF path = "toggled"
              THEN [select_state EXCEPT ![uid].selected = toggle(@, idx)]
              ELSE select_state
        /\ last' = [RecordArg("cb_toggle", uid, path, {}, "none", i)
                        EXCEPT !.sel = st.selected,
                               !.again = /\ path = "toggled"
                                         /\ last.op = "cb_toggle"
                                         /\ last.path = "toggled"
                                         /\ last.uid = uid
                                         /\ last.arg = i]
        /\ UNCHANGED <<login_state, user_sessions, USER_CLIENT_CACHE,
                       session_files, authorized_keys, buttons, dispatch,
                       logged_out, stats_state, invite_links, link_seq, joins,
                       importers, pin_task, sync_task, pageVars, plan_active, flow_task>>

\* the rows cb_msel_done saves in create_links mode: one per chosen chat whose
\* export and save did not raise, in ascending index order
created_rows(uid, st, failed) ==
    LET kept == SelectSeq(sorted(st.selected),
                          LAMBDA idx : st.pairs[idx + 1] \notin failed)
    IN  [k \in 1..Len(kept) |->
            [id |-> link_seq + k, user_id |-> uid,
             chat_id |-> st.pairs[kept[k] + 1]]]

RECURSIVE save_all(_, _)
save_all(links, rows) ==
    IF rows = <<>> THEN links
    ELSE save_all(sp_save_invite_link(links, Head(rows).id, Head(rows).user_id,
                                      Head(rows).chat_id),
                  Tail(rows))

\* link_ids that holds every listed row, selected or not
chosen_link_ids_all(st) == [k \in 1..Len(st.rows) |-> st.rows[k].id]

\* link_ids of the remove_links branch of cb_msel_done
chosen_link_ids(st) ==
    LET chosen == SelectSeq(sorted(st.selected),
                            LAMBDA i : 0 <= i /\ i < Len(st.rows))
    IN  [k \in 1..Len(chosen) |-> st.rows[chosen[k] + 1].id]

\* a pending deletion that holds the ids in descending index order
pending_deletion_reversed(link_ids) ==
    [mode |-> "remove_confirm", pairs |-> <<>>, selected |-> {}, rows |-> <<>>,
     link_ids |-> [k \in 1..Len(link_ids) |-> link_ids[Len(link_ids) + 1 - k]]]

\* the pending deletion state cb_msel_done saves for the confirmation
pending_deletion(link_ids) ==
    [mode |-> "remove_confirm", pairs |-> <<>>, selected |-> {}, rows |-> <<>>,
     link_ids |-> link_ids]

\* the user presses Done; fail names the get_user_client call that raises and
\* failed the chats whose export or save raises
cb_msel_done(uid, fail, failed) ==
    LET st == select_state[uid]
        r == get_user_client(uid, fail)
        rows == created_rows(uid, st, failed)
        link_ids == chosen_link_ids(st)
        create == st.mode = "create_links" /\ st.selected # {}
        path == IF st = NoSelect THEN "session_expired"
                ELSE IF st.mode = "create_links"
                THEN IF st.selected = {} THEN "no_chats_selected"
                     ELSE IF ~r.ok THEN "client_error" ELSE "links_created"
                ELSE IF st.mode = "remove_links"
                THEN IF link_ids = <<>> THEN "nothing_selected"
                     ELSE "delete_confirmation"
                ELSE "nothing_to_do"
    IN  /\ dispatch = NoDispatch
        /\ "msel" \in buttons[uid]
        /\ path = "links_created" => link_seq + Len(rows) <= MaxLinks
        /\ USER_CLIENT_CACHE' = IF create THEN r.cache ELSE USER_CLIENT_CACHE
        /\ session_files' = IF create THEN r.files ELSE session_files
        /\ invite_links' = IF path = "links_created"
                           THEN save_all(invite_links, rows)
                           ELSE invite_links
        /\ link_seq' = IF path = "links_created"
                       THEN link_seq + Len(rows) ELSE link_seq
        /\ select_state' =
              IF path = "session_expired" THEN select_state
              ELSE IF path = "delete_confirmation"
              THEN [select_state EXCEPT ![uid] = pending_deletion(link_ids)]
              ELSE [select_state EXCEPT ![uid] = NoSelect]
        /\ buttons' = IF path = "delete_confirmation"
                      THEN [buttons EXCEPT ![uid] = @ \cup {"rem"}]
                      ELSE buttons
        /\ last' = Record("cb_msel_done", uid, path,
                          IF create THEN r.calls ELSE {}, NoSent,
                          IF create THEN ClientResult(r) ELSE "none")
        /\ UNCHANGED <<login_state, user_sessions, authorized_keys, dispatch,
                       logged_out, stats_state, joins, importers, pin_task,
                       sync_task, pageVars, plan_active, flow_task>>

\* the user presses "Yes, delete"
cb_rem_confirm(uid, fail) ==
    LET st == select_state[uid]
        pending == st # NoSelect /\ st.mode = "remove_confirm"
        r == sp_soft_delete_links(uid, st.link_ids, fail)
    IN  /\ dispatch = NoDispatch
        /\ "rem" \in buttons[uid]
        /\ select_state' = IF pending
                           THEN [select_state EXCEPT ![uid] = NoSelect]
                           ELSE select_state
        /\ invite_links' = IF pending THEN r.links ELSE invite_links
        /\ joins' = IF pending THEN r.joins ELSE joins
        /\ last' = Record("cb_rem_confirm", uid,
                          IF ~pending THEN "nothing_pending"
                          ELSE IF st.link_ids = <<>> THEN "no_links_to_delete"
                          ELSE IF r.raised THEN "error" ELSE "deleted",
                          {}, NoSent, "none")
        /\ UNCHANGED <<login_state, user_sessions, USER_CLIENT_CACHE,
                       session_files, authorized_keys, buttons, dispatch,
                       logged_out, stats_state, link_seq, importers, pin_task,
                       sync_task, pageVars, plan_active, flow_task>>

\* cb_rem_cancel that runs the deletion it was asked to cancel
cb_rem_cancel_deletes(uid) ==
    /\ dispatch = NoDispatch
    /\ "rem" \in buttons[uid]
    /\ select_state' = [select_state EXCEPT ![uid] = NoSelect]
    /\ invite_links' = sp_soft_delete_links(uid, select_state[uid].link_ids,
                                            "none").links
    /\ joins' = sp_soft_delete_links(uid, select_state[uid].link_ids,
                                     "none").joins
    /\ last' = RecordArg("cb_rem_cancel", uid, "deletion_cancelled", {},
                         "none", Len(select_state[uid].link_ids))
    /\ UNCHANGED <<login_state, user_sessions, USER_CLIENT_CACHE, session_files,
                   authorized_keys, buttons, dispatch, logged_out, stats_state,
                   link_seq, importers, pin_task, sync_task, pageVars,
                   plan_active, flow_task>>

\* the user presses Cancel on the delete confirmation
cb_rem_cancel(uid) ==
    LET st == select_state[uid]
    IN  /\ dispatch = NoDispatch
        /\ "rem" \in buttons[uid]
        /\ select_state' =
              IF st # NoSelect /\ st.mode = "remove_confirm"
              THEN [select_state EXCEPT ![uid] = NoSelect]
              ELSE select_state
        /\ last' = RecordArg("cb_rem_cancel", uid, "deletion_cancelled", {},
                             "none", Len(st.link_ids))
        /\ UNCHANGED <<login_state, user_sessions, USER_CLIENT_CACHE,
                       session_files, authorized_keys, buttons, dispatch,
                       logged_out, stats_state, invite_links, link_seq, joins,
                       importers, pin_task, sync_task, pageVars, plan_active, flow_task>>

\* the user presses Cancel on a multi-select keyboard
cb_msel_cancel(uid) ==
    /\ dispatch = NoDispatch
    /\ "msel" \in buttons[uid]
    /\ select_state' = [select_state EXCEPT ![uid] = NoSelect]
    /\ last' = Record("cb_msel_cancel", uid, "selection_cancelled", {}, NoSent,
                      "none")
    /\ UNCHANGED <<login_state, user_sessions, USER_CLIENT_CACHE, session_files,
                   authorized_keys, buttons, dispatch, logged_out, stats_state,
                   invite_links, link_seq, joins, importers, pin_task,
                   sync_task, pageVars, plan_active, flow_task>>

\* /remove_link: the selection over the user's active links
remove_link_cmd(fail, plan) ==
    LET uid == dispatch.uid
        r == get_user_client(uid, fail)
        rows == sp_list_invite_links(uid)
        path == IF ~r.ok THEN "please_login"
                ELSE IF ~plan THEN "no_active_plan"
                ELSE IF rows = <<>> THEN "no_active_links"
                ELSE "select_links"
    IN  /\ dispatch.stage = "remove_link_cmd"
        /\ plan => plan_active[dispatch.uid]
        /\ USER_CLIENT_CACHE' = r.cache
        /\ session_files' = r.files
        /\ select_state' =
              IF path = "select_links"
              THEN [select_state EXCEPT ![uid] =
                       [mode |-> "remove_links",
                        pairs |-> [k \in 1..Len(rows) |-> rows[k].id],
                        selected |-> {}, rows |-> rows, link_ids |-> <<>>]]
              ELSE select_state
        /\ buttons' = IF path = "select_links"
                      THEN [buttons EXCEPT ![uid] = @ \cup {"msel"}]
                      ELSE buttons
        /\ dispatch' = NoDispatch
        /\ last' = Record("remove_link_cmd", uid, path, r.calls, NoSent,
                          ClientResult(r))
        /\ UNCHANGED <<login_state, user_sessions, authorized_keys, logged_out,
                       stats_state, invite_links, link_seq, joins, importers,
                       pin_task, sync_task, pageVars, plan_active, flow_task>>

\* ------------------------------------------------- cb_pin_create_links
\* The handler awaits get_user_client and then top_dialog_pairs; other
\* handlers run while it is suspended.  A TelegramClient reads the key of its
\* session file when it is constructed and keeps it in memory: key_ok tells
\* whether the platform accepts the key the suspended client holds.

\* the user presses "I have pinned the chats": get_user_client up to its
\* await of safe_connect
cb_pin_create_links_begin(uid, fail) ==
    LET c == USER_CLIENT_CACHE[uid]
        local == user_sessions[uid].session_file
        hit == c.present /\ c.connected
        found == fail # "sp_get_session" /\ HasSession(uid)
    IN  /\ dispatch = NoDispatch
        /\ "pin_create_links" \in buttons[uid]
        /\ pin_task[uid] = NoPin
        /\ pin_task' =
              IF hit
              THEN [pin_task EXCEPT ![uid] =
                       [stage |-> "dialogs", file |-> c.file, key_ok |-> TRUE]]
              ELSE IF found
              THEN [pin_task EXCEPT ![uid] =
                       [stage |-> "connect", file |-> local,
                        key_ok |-> local \in authorized_keys]]
              ELSE pin_task
        /\ session_files' = IF ~hit /\ found
                            THEN session_files \cup {local} ELSE session_files
        /\ last' = Record("cb_pin_create_links", uid,
                          IF hit THEN "client_cached"
                          ELSE IF found THEN "connecting" ELSE "client_error",
                          {}, NoSent,
                          IF hit THEN "ok" ELSE IF found THEN "none" ELSE "fail")
        /\ UNCHANGED <<login_state, user_sessions, USER_CLIENT_CACHE,
                       authorized_keys, buttons, dispatch, logged_out,
                       select_state, stats_state, invite_links, link_seq,
                       joins, importers, sync_task, pageVars, plan_active, flow_task>>

\* safe_connect returns or raises; is_user_authorized; the cache is written
cb_pin_create_links_connected(uid, fail) ==
    LET t == pin_task[uid]
        ok == fail = "none" /\ t.key_ok
    IN  /\ t.stage = "connect"
        /\ USER_CLIENT_CACHE' =
              IF ok
              THEN [USER_CLIENT_CACHE EXCEPT ![uid] =
                       [present |-> TRUE, file |-> t.file, connected |-> TRUE]]
              ELSE USER_CLIENT_CACHE
        /\ pin_task' = [pin_task EXCEPT ![uid] =
                           IF ok THEN [t EXCEPT !.stage = "dialogs"] ELSE NoPin]
        /\ last' = Record("get_user_client", uid,
                          IF ok THEN "client_connected" ELSE "client_error",
                          IF fail = "connect" THEN {"connect"}
                          ELSE {"connect", "is_user_authorized"},
                          NoSent, IF ok THEN "ok" ELSE "fail")
        /\ UNCHANGED <<login_state, user_sessions, session_files,
                       authorized_keys, buttons, dispatch, logged_out,
                       select_state, stats_state, invite_links, link_seq,
                       joins, importers, sync_task, pageVars, plan_active, flow_task>>

\* top_dialog_pairs returns the eligible dialogs
cb_pin_create_links_dialogs(uid, pairs) ==
    /\ pin_task[uid].stage = "dialogs"
    /\ pin_task' = [pin_task EXCEPT ![uid] = NoPin]
    /\ select_state' =
          IF pairs = <<>> THEN select_state
          ELSE [select_state EXCEPT ![uid] =
                   [mode |-> "create_links", pairs |-> pairs,
                    selected |-> {}, rows |-> <<>>, link_ids |-> <<>>]]
    /\ buttons' = IF pairs = <<>> THEN buttons
                  ELSE [buttons EXCEPT ![uid] = @ \cup {"msel"}]
    /\ last' = Record("cb_pin_create_links", uid,
                      IF pairs = <<>> THEN "no_dialogs" ELSE "select_chats",
                      {}, NoSent, "none")
    /\ UNCHANGED <<login_state, user_sessions, USER_CLIENT_CACHE, session_files,
                   authorized_keys, dispatch, logged_out, stats_state,
                   invite_links, link_seq, joins, importers, sync_task, pageVars,
                   plan_active, flow_task>>

\* ------------------------------------------------------------ stats queries
\* a joined_at filter that leaves out the rows at the bounds
in_window_exclusive(t, since, until) ==
    (since = 0 \/ t > since) /\ (until = 0 \/ t < until)

\* the joined_at filter of both stats queries: gte since when since is given,
\* lte until when until is given
in_window(t, since, until) ==
    (since = 0 \/ t >= since) /\ (until = 0 \/ t <= until)

\* queries that select the rows of the link whoever owns them
matching_any_owner(rows, uid, invite_link_id, since, until) ==
    {j \in rows : /\ j.invite_link_id = invite_link_id
                  /\ in_window(j.joined_at, since, until)}

\* the rows of table joins (rows) that both queries select
matching(rows, uid, invite_link_id, since, until) ==
    {j \in rows : /\ j.user_id = uid
                  /\ j.invite_link_id = invite_link_id
                  /\ in_window(j.joined_at, since, until)}

sp_count_joins_for_link(rows, uid, invite_link_id, since, until) ==
    Cardinality(matching(rows, uid, invite_link_id, since, until))

\* order("joined_at", desc=True); rows of equal joined_at are put in the
\* order of their account ids
newer(a, b) ==
    \/ a.joined_at > b.joined_at
    \/ a.joined_at = b.joined_at /\ a.joined_user_id > b.joined_user_id

\* range(offset, offset + limit - 1) of the ordered rows
sp_fetch_joins_for_link(rows, uid, invite_link_id, since, until, offset, limit) ==
    LET M == matching(rows, uid, invite_link_id, since, until)
    IN  {j \in M : Cardinality({x \in M : newer(x, j)})
                       \in offset..(offset + limit - 1)}

\* page_size of cb_stats_link
page_size == 15

\* a navigation row that offers next up to and including the last page
nav_row_next_on_last(offset, size, total) ==
    (IF offset > 0 THEN {"prev"} ELSE {})
        \cup (IF offset + size <= total THEN {"next"} ELSE {})

\* nav_row of render_stats_page
nav_row(offset, size, total) ==
    (IF offset > 0 THEN {"prev"} ELSE {})
        \cup (IF offset + size < total THEN {"next"} ELSE {})

\* the buttons render_stats_page puts under a page
page_buttons(offset, size, total) == nav_row(offset, size, total) \cup {"close"}

\* cb_stats_link that counts the joins before it awaits the sync
open_page_before_sync(rows, uid, link_id, st) ==
    [link_id |-> link_id, label |-> st.label, since |-> st.since,
     until |-> st.until, offset |-> 0, page_size |-> page_size,
     total |-> sp_count_joins_for_link(joins, uid, link_id, st.since, st.until),
     found |-> \E r \in Range(sp_list_invite_links(uid)) : r.id = link_id]

\* the rest of cb_stats_link after sync_importers_to_db returned: count the
\* joins (rows: table joins by then), look the link up, store the page
\* context under (uid, msg) and render the first page; client_ok tells
\* whether render_stats_page gets the user client
open_page(rows, uid, link_id, st) ==
    [link_id |-> link_id, label |-> st.label, since |-> st.since,
     until |-> st.until, offset |-> 0, page_size |-> page_size,
     total |-> sp_count_joins_for_link(rows, uid, link_id, st.since, st.until),
     found |-> \E r \in Range(sp_list_invite_links(uid)) : r.id = link_id]

first_kb(ctx, client_ok) ==
    IF client_ok THEN page_buttons(ctx.offset, ctx.page_size, ctx.total) ELSE {}

\* ------------------------------------------------------------ stats, sync
\* _stats_template(e, label, since) called by the handler of a stats command
\* (stage): the selection message it sends is recorded in buttons by
\* "stats", the stats:<id> buttons, and by the name of the handler
stats_template(stage, label, since, fail, plan) ==
    LET uid == dispatch.uid
        r == get_user_client(uid, fail)
        rows == sp_list_invite_links(uid)
        path == IF ~r.ok THEN "please_login"
                ELSE IF ~plan THEN "no_active_plan"
                ELSE IF rows = <<>> THEN "no_active_links"
                ELSE "select_link"
    IN  /\ dispatch.stage = stage
        /\ plan => plan_active[dispatch.uid]
        /\ USER_CLIENT_CACHE' = r.cache
        /\ session_files' = r.files
        /\ stats_state' = IF path = "select_link"
                          THEN [stats_state EXCEPT ![uid] =
                                   [label |-> label, since |-> since,
                                    until |-> 0]]
                          ELSE stats_state
        /\ buttons' = IF path = "select_link"
                      THEN [buttons EXCEPT ![uid] = @ \cup {"stats", stage}]
                      ELSE buttons
        /\ dispatch' = NoDispatch
        /\ last' = Record(stage, uid, path, r.calls, NoSent,
                          ClientResult(r))
        /\ UNCHANGED <<login_state, user_sessions, authorized_keys, logged_out,
                       select_state, invite_links, link_seq, joins, importers,
                       pin_task, sync_task, pageVars, plan_active, flow_task>>

\* /stats
stats_all_cmd(fail, plan) ==
    stats_template("stats_all_cmd", "All time", 0, fail, plan)

\* /hour_status at time now: start = now - timedelta(hours=1)
stats_hour_cmd(now, fail, plan) ==
    stats_template("stats_hour_cmd", "Last 1 hour", now - 1, fail, plan)

\* cb_stats_link whose sync, when it returns early, has emptied the joins of
\* the user
cb_stats_link_clears(uid, m, link_id, fail) ==
    LET rows == sp_list_invite_links(uid)
        r == get_user_client(uid, fail)
        st == stats_state[uid]
        expired == st = NoStats
        syncing == ~expired /\ rows # <<>> /\ r.ok
        ctx == open_page(joins, uid, link_id, st)
    IN  /\ dispatch = NoDispatch
        /\ "stats" \in buttons[uid]
        /\ ~sync_task[uid].active
        /\ stats_pages[uid][m] = NoPage
        /\ page_kb[uid][m] = {}
        /\ render_task[uid][m] = {}
        /\ stats_state' = [stats_state EXCEPT ![uid] = NoStats]
        /\ USER_CLIENT_CACHE' = IF expired THEN USER_CLIENT_CACHE ELSE r.cache
        /\ session_files' = IF expired THEN session_files ELSE r.files
        /\ sync_task' = IF syncing
                        THEN [sync_task EXCEPT ![uid] =
                                 [active |-> TRUE, rows |-> rows, i |-> 1,
                                  skipped |-> {}, msg |-> m,
                                  link_id |-> link_id, st |-> st]]
                        ELSE sync_task
        /\ stats_pages' = IF expired \/ syncing THEN stats_pages
                          ELSE [stats_pages EXCEPT ![uid][m] = ctx]
        /\ page_kb' = IF expired \/ syncing THEN page_kb
                      ELSE [page_kb EXCEPT ![uid][m] = first_kb(ctx, r.ok)]
        /\ UNCHANGED render_task
        /\ last' = Record("cb_stats_link", uid,
                          IF expired THEN "session_expired"
                          ELSE IF rows = <<>> THEN "no_links"
                          ELSE IF r.ok THEN "syncing" ELSE "client_error",
                          IF expired THEN {} ELSE r.calls, NoSent,
                          IF expired THEN "none" ELSE ClientResult(r))
        /\ joins' = IF expired \/ syncing THEN joins
                    ELSE {j \in joins : j.user_id # uid}
        /\ UNCHANGED <<login_state, user_sessions, authorized_keys, buttons,
                       dispatch, logged_out, select_state, invite_links,
                       link_seq, importers, pin_task, plan_active, flow_task>>

\* the user presses the button of a link (data stats:<id>) under message m,
\* a message that is not a stats page: the handler pops stats_state and calls
\* sync_importers_to_db, which lists the user's links and gets the user
\* client before its loop.  When the user has no link or no client the sync
\* returns at once and the handler opens the page in the same step, asking
\* for the client again in render_stats_page with the same outcome.
cb_stats_link(uid, m, link_id, fail) ==
    LET rows == sp_list_invite_links(uid)
        r == get_user_client(uid, fail)
        st == stats_state[uid]
        expired == st = NoStats
        syncing == ~expired /\ rows # <<>> /\ r.ok
        ctx == open_page(joins, uid, link_id, st)
    IN  /\ dispatch = NoDispatch
        /\ "stats" \in buttons[uid]
        /\ ~sync_task[uid].active
        /\ stats_pages[uid][m] = NoPage
        /\ page_kb[uid][m] = {}
        /\ render_task[uid][m] = {}
        /\ stats_state' = [stats_state EXCEPT ![uid] = NoStats]
        /\ USER_CLIENT_CACHE' = IF expired THEN USER_CLIENT_CACHE ELSE r.cache
        /\ session_files' = IF expired THEN session_files ELSE r.files
        /\ sync_task' = IF syncing
                        THEN [sync_task EXCEPT ![uid] =
                                 [active |-> TRUE, rows |-> rows, i |-> 1,
                                  skipped |-> {}, msg |-> m,
                                  link_id |-> link_id, st |-> st]]
                        ELSE sync_task
        /\ stats_pages' = IF expired \/ syncing THEN stats_pages
                          ELSE [stats_pages EXCEPT ![uid][m] = ctx]
        /\ page_kb' = IF expired \/ syncing THEN page_kb
                      ELSE [page_kb EXCEPT ![uid][m] = first_kb(ctx, r.ok)]
        /\ UNCHANGED render_task
        /\ last' = Record("cb_stats_link", uid,
                          IF expired THEN "session_expired"
                          ELSE IF rows = <<>> THEN "no_links"
                          ELSE IF r.ok THEN "syncing" ELSE "client_error",
                          IF expired THEN {} ELSE r.calls, NoSent,
                          IF expired THEN "none" ELSE ClientResult(r))
        /\ UNCHANGED <<login_state, user_sessions, authorized_keys, buttons,
                       dispatch, logged_out, select_state, invite_links,
                       link_seq, joins, importers, pin_task, plan_active, flow_task>>

display_name(kind, user_id) ==
    IF kind = "username" THEN [label |-> "@", id |-> user_id]
    ELSE IF kind = "full_name" THEN [label |-> "name", id |-> user_id]
    ELSE [label |-> "id:", id |-> user_id]

\* join_rows of the loop body: one row per importer with a user_id
join_rows(uid, r, names) ==
    {[user_id |-> uid, chat_id |-> r.chat_id, invite_link_id |-> r.id,
      joined_user_id |-> imp.user_id,
      joined_username |-> display_name(names[imp.user_id], imp.user_id),
      joined_at |-> imp.date] :
        imp \in {x \in importers[r.id] : x.user_id # 0}}

\* sync_importers_to_db that gives up at the first link it cannot resolve
sync_importers_step_aborts(uid, fail, names) ==
    LET t == sync_task[uid]
        r == t.rows[t.i]
        skipped == fail \in {"get_input_entity", "GetChatInviteImporters"}
        rep == sp_replace_joins_for_link(uid, r.id, join_rows(uid, r, names),
                                         fail)
        nj == IF skipped THEN joins ELSE rep.joins
        c == get_user_client(uid, "none")
        ctx == open_page(nj, uid, t.link_id, t.st)
        returned == (skipped \/ ~rep.raised) /\ t.i = Len(t.rows)
    IN  /\ t.active
        /\ joins' = nj
        /\ USER_CLIENT_CACHE' = IF returned THEN c.cache ELSE USER_CLIENT_CACHE
        /\ session_files' = IF returned THEN c.files ELSE session_files
        /\ stats_pages' = IF returned
                          THEN [stats_pages EXCEPT ![uid][t.msg] = ctx]
                          ELSE stats_pages
        /\ page_kb' = IF returned
                      THEN [page_kb EXCEPT ![uid][t.msg] = first_kb(ctx, c.ok)]
                      ELSE page_kb
        /\ UNCHANGED render_task
        /\ sync_task' = [sync_task EXCEPT ![uid] =
                            IF skipped \/ rep.raised \/ t.i = Len(t.rows)
                            THEN NoSync ELSE [t EXCEPT !.i = @ + 1]]
        /\ last' = [RecordArg("sync_importers_to_db", uid,
                              IF skipped THEN "skipped"
                              ELSE IF rep.raised THEN "store_error"
                              ELSE "replaced",
                              {}, "none", r.id)
                        EXCEPT !.sel = t.skipped]
        /\ UNCHANGED <<login_state, user_sessions, authorized_keys, buttons,
                       dispatch, logged_out, select_state, stats_state,
                       invite_links, link_seq, importers, pin_task,
                       plan_active, flow_task>>

\* one iteration of the loop of sync_importers_to_db, from the row to
\* sp_replace_joins_for_link; fail names the call that raises, names what
\* get_entity finds for each importer.  The loop awaits the platform in every
\* iteration, so other handlers run between iterations.  When the loop ends
\* sync_importers_to_db returns and cb_stats_link opens the page in the same
\* step (open_page, first_kb); a store exception ends the handler instead.
sync_importers_step(uid, fail, names) ==
    LET t == sync_task[uid]
        r == t.rows[t.i]
        skipped == fail \in {"get_input_entity", "GetChatInviteImporters"}
        rep == sp_replace_joins_for_link(uid, r.id, join_rows(uid, r, names),
                                         fail)
        nj == IF skipped THEN joins ELSE rep.joins
        c == get_user_client(uid, "none")
        ctx == open_page(nj, uid, t.link_id, t.st)
        returned == (skipped \/ ~rep.raised) /\ t.i = Len(t.rows)
    IN  /\ t.active
        /\ joins' = nj
        /\ USER_CLIENT_CACHE' = IF returned THEN c.cache ELSE USER_CLIENT_CACHE
        /\ session_files' = IF returned THEN c.files ELSE session_files
        /\ stats_pages' = IF returned
                          THEN [stats_pages EXCEPT ![uid][t.msg] = ctx]
                          ELSE stats_pages
        /\ page_kb' = IF returned
                      THEN [page_kb EXCEPT ![uid][t.msg] = first_kb(ctx, c.ok)]
                      ELSE page_kb
        /\ UNCHANGED render_task
        /\ sync_task' = [sync_task EXCEPT ![uid] =
                            IF (~skipped /\ rep.raised) \/ t.i = Len(t.rows)
                            THEN NoSync
                            ELSE [t EXCEPT !.i = @ + 1,
                                           !.skipped = IF skipped
                                                       THEN @ \cup {r.id}
                                                       ELSE @]]
        /\ last' = [RecordArg("sync_importers_to_db", uid,
                              IF skipped THEN "skipped"
                              ELSE IF rep.raised THEN "store_error"
                              ELSE "replaced",
                              {}, "none", r.id)
                        EXCEPT !.sel = t.skipped]
        /\ UNCHANGED <<login_state, user_sessions, authorized_keys, buttons,
                       dispatch, logged_out, select_state, stats_state,
                       invite_links, link_seq, importers, pin_task,
                       plan_active, flow_task>>

\* ------------------------------------------------------------ stats pager
\* a render under way: the offset and total render_stats_page read from the
\* context before its first await
RenderOf(ctx) == [offset |-> ctx.offset, total |-> ctx.total]

MaxRenders == 2

\* a prev that goes back to the first page
turn_prev_to_first(ctx, action) ==
    [ctx EXCEPT !.offset = IF action = "next" THEN @ + ctx.page_size ELSE 0]

\* the context after next or prev: the offset moves by one page
turn(ctx, action) ==
    [ctx EXCEPT !.offset = IF action = "next" THEN @ + ctx.page_size
                           ELSE @ - ctx.page_size]

\* cb_stats_page that moves the contexts of all stats messages of the user
cb_stats_page_by_user(uid, m, action) ==
    LET ctx == stats_pages[uid][m]
        path == IF ctx = NoPage THEN "session_expired" ELSE action
        move(c) == IF c = NoPage THEN NoPage
                   ELSE [c EXCEPT !.offset = IF action = "next"
                                             THEN @ + c.page_size
                                             ELSE @ - c.page_size]
        moved == move(ctx)
    IN  /\ dispatch = NoDispatch
        /\ action \in page_kb[uid][m]
        /\ path \in {"next", "prev"} =>
               /\ moved.offset <= (3 * page_size)
               /\ moved.offset >= (0 - page_size)
               /\ Cardinality(render_task[uid][m]) < MaxRenders
        /\ stats_pages' = IF path = "session_expired" THEN stats_pages
                          ELSE IF path = "close"
                          THEN [stats_pages EXCEPT ![uid][m] = NoPage]
                          ELSE [stats_pages EXCEPT ![uid] =
                                   [k \in MsgIds |-> move(stats_pages[uid][k])]]
        /\ page_kb' = IF path = "close"
                      THEN [page_kb EXCEPT ![uid][m] = {}]
                      ELSE page_kb
        /\ render_task' = IF path \in {"next", "prev"}
                          THEN [render_task EXCEPT ![uid][m] =
                                   @ \cup {RenderOf(moved)}]
                          ELSE render_task
        /\ last' = [RecordArg("cb_stats_page", uid, path, {}, "none", m)
                        EXCEPT !.page = [NoPress EXCEPT !.before = ctx,
                                                        !.action = action]]
        /\ UNCHANGED <<login_state, user_sessions, USER_CLIENT_CACHE,
                       session_files, authorized_keys, buttons, dispatch,
                       logged_out, select_state, stats_state, invite_links,
                       link_seq, joins, importers, pin_task, sync_task,
                       plan_active, flow_task>>

\* the user presses a button (stats_page:<action>) that message m shows:
\* without a context the handler answers "Session expired"; close pops the
\* context and removes the buttons; next and prev move the offset by one
\* page and call render_stats_page, which reads the context and then awaits
\* the user client, the names and the edit
cb_stats_page(uid, m, action) ==
    LET ctx == stats_pages[uid][m]
        path == IF ctx = NoPage THEN "session_expired" ELSE action
        moved == turn(ctx, action)
    IN  /\ dispatch = NoDispatch
        /\ action \in page_kb[uid][m]
        /\ path \in {"next", "prev"} =>
               /\ moved.offset <= (3 * page_size)
               /\ moved.offset >= (0 - page_size)
               /\ Cardinality(render_task[uid][m]) < MaxRenders
        /\ stats_pages' = IF path = "session_expired" THEN stats_pages
                          ELSE IF path = "close"
                          THEN [stats_pages EXCEPT ![uid][m] = NoPage]
                          ELSE [stats_pages EXCEPT ![uid][m] = moved]
        /\ page_kb' = IF path = "close"
                      THEN [page_kb EXCEPT ![uid][m] = {}]
                      ELSE page_kb
        /\ render_task' = IF path \in {"next", "prev"}
                          THEN [render_task EXCEPT ![uid][m] =
                                   @ \cup {RenderOf(moved)}]
                          ELSE render_task
        /\ last' = [RecordArg("cb_stats_page", uid, path, {}, "none", m)
                        EXCEPT !.page = [NoPress EXCEPT !.before = ctx,
                                                        !.action = action]]
        /\ UNCHANGED <<login_state, user_sessions, USER_CLIENT_CACHE,
                       session_files, authorized_keys, buttons, dispatch,
                       logged_out, select_state, stats_state, invite_links,
                       link_seq, joins, importers, pin_task, sync_task,
                       plan_active, flow_task>>

\* the handler that ran last was a stats_page callback or a render for
\* message m of the user
SameMessage(uid, m) ==
    /\ last.op \in {"cb_stats_page", "render_stats_page"}
    /\ last.uid = uid
    /\ last.arg = m

\* what a render under way meets: the page is edited, the page query raises
\* (the handler ends and the message keeps its buttons), or the user client
\* cannot be had (the message is edited to the error text without buttons)

\* render_stats_page from the page query to the edit, for a render that
\* cb_stats_page started
render_stats_page(uid, m, rt, outcome) ==
    /\ rt \in render_task[uid][m]
    /\ render_task' = [render_task EXCEPT ![uid][m] = @ \ {rt}]
    /\ page_kb' = [page_kb EXCEPT ![uid][m] =
                       IF outcome = "ok"
                       THEN page_buttons(rt.offset, page_size, rt.total)
                       ELSE IF outcome = "client_error" THEN {}
                       ELSE @]
    /\ last' = [RecordArg("render_stats_page", uid, outcome, {}, "none", m)
                    EXCEPT !.page = [before |-> IF SameMessage(uid, m)
                                                THEN last.page.before
                                                ELSE NoPage,
                                     action |-> IF SameMessage(uid, m)
                                                THEN last.page.action
                                                ELSE "none",
                                     offset |-> rt.offset,
                                     total |-> rt.total]]
    /\ UNCHANGED <<login_state, user_sessions, USER_CLIENT_CACHE,
                   session_files, authorized_keys, buttons, dispatch,
                   logged_out, select_state, stats_state, invite_links,
                   link_seq, joins, importers, pin_task, sync_task,
                   stats_pages, plan_active, flow_task>>

\* ------------------------------------------------------------ dialog filter
\* TOP_N: how many chats the selection shows
TOP_N == 14

\* a filter that lets every channel through, public ones included
eligible_public_too(d) ==
    /\ d.type # "User"
    /\ d.type \in {"Channel", "Chat"}
    /\ d.creator \/ d.admin_rights

\* the checks of the loop of top_dialog_pairs on one dialog: not a 1-1 chat,
\* a Channel or Chat entity, no username when a Channel, creator or
\* admin_rights
eligible(d) ==
    /\ d.type # "User"
    /\ d.type \in {"Channel", "Chat"}
    /\ ~(d.type = "Channel" /\ d.username)
    /\ d.creator \/ d.admin_rights

\* the loop of top_dialog_pairs from dialog k on, pairs being the list so
\* far: append the peer id of every dialog that passes and stop at limit
RECURSIVE top_dialog_loop(_, _, _, _)
top_dialog_loop(dialogs, k, pairs, limit) ==
    IF k > Len(dialogs) THEN pairs
    ELSE IF ~eligible(dialogs[k]) THEN top_dialog_loop(dialogs, k + 1, pairs, limit)
    ELSE IF Len(pairs) + 1 >= limit THEN Append(pairs, dialogs[k].id)
    ELSE top_dialog_loop(dialogs, k + 1, Append(pairs, dialogs[k].id), limit)

top_dialog_pairs(dialogs, limit) == top_dialog_loop(dialogs, 1, <<>>, limit)

\* ------------------------------------------------------------- environment
\* the expires_at of the user's subscription passes
PlanExpires(uid) ==
    /\ plan_active[uid]
    /\ plan_active' = [plan_active EXCEPT ![uid] = FALSE]
    /\ last' = [NoLast EXCEPT !.op = "PlanExpires", !.uid = uid]
    /\ UNCHANGED <<login_state, user_sessions, USER_CLIENT_CACHE, session_files,
                   authorized_keys, buttons, dispatch, logged_out, select_state,
                   stats_state, invite_links, link_seq, joins, importers,
                   pin_task, sync_task, pageVars, flow_task>>

\* the connection of a cached client drops
ConnectionDrop(uid) ==
    /\ USER_CLIENT_CACHE[uid].present
    /\ USER_CLIENT_CACHE[uid].connected
    /\ USER_CLIENT_CACHE' = [USER_CLIENT_CACHE EXCEPT ![uid].connected = FALSE]
    /\ UNCHANGED linkVars
    /\ last' = Record("ConnectionDrop", uid, "none", {}, NoSent, "none")
    /\ UNCHANGED <<login_state, user_sessions, session_files, authorized_keys,
                   dispatch, logged_out, buttons>>

\* the platform stops accepting the key of a session file (the account
\* owner terminated that session from another device)
PlatformRevoke(file) ==
    /\ file \in authorized_keys
    /\ authorized_keys' = authorized_keys \ {file}
    /\ pin_task' = [u \in Users |->
                       IF pin_task[u].file = file
                       THEN [pin_task[u] EXCEPT !.key_ok = FALSE]
                       ELSE pin_task[u]]
    /\ UNCHANGED <<select_state, stats_state, invite_links, link_seq, joins,
                   importers, sync_task, pageVars, plan_active, flow_task>>
    /\ last' = Record("PlatformRevoke", file.uid, "none", {}, NoSent, "none")
    /\ UNCHANGED <<login_state, user_sessions, USER_CLIENT_CACHE, session_files,
                   dispatch, logged_out, buttons, pageVars, plan_active, flow_task>>

\* an account joins a chat through an exported link
PlatformImport(l, a) ==
    /\ l <= link_seq
    /\ \A imp \in importers[l] : imp.user_id # a
    /\ importers' = [importers EXCEPT ![l] = @ \cup {[user_id |-> a, date |-> 1]}]
    /\ last' = [NoLast EXCEPT !.op = "PlatformImport", !.arg = l]
    /\ UNCHANGED <<login_state, user_sessions, USER_CLIENT_CACHE, session_files,
                   authorized_keys, buttons, dispatch, logged_out, select_state,
                   stats_state, invite_links, link_seq, joins, pin_task,
                   sync_task, pageVars, plan_active, flow_task>>

\* ---------------------------------------------------------- specifications
\* the outcomes that lead to different results: one failing call with a
\* successful sign_in, each hash a code request can return, and each way
\* sign_in can raise
Outcomes ==
    {[fail |-> f, sign_in |-> "ok", hash |-> 0] : f \in {"none", "connect", "is_user_authorized", "get_me",
                   "send_code_request", "sp_upsert_session", "respond"}}
    \cup {[fail |-> f, sign_in |-> "ok", hash |-> h] :
             f \in {"none", "respond"}, h \in (1..NumHashes)}
    \cup {[fail |-> "none", sign_in |-> r, hash |-> 0] :
             r \in {"SessionPasswordNeeded", "PhoneCodeInvalid",
                    "PasswordHashInvalid", "error"}}

\* Spec: every handler, every message and every outcome, for one user
Subject == {1}

Next ==
    \/ \E uid \in Subject, msg \in Messages : NewMessage(uid, msg)
    \/ \E fail \in GucFails : status_cmd(fail)
    \/ \E fail \in GucFails : login_cmd(fail)
    \/ stoplogin_cmd
    \/ \E o \in Outcomes : LoginFlow(o)
    \/ \E fail \in GucFails : logout_cmd(fail)
    \/ \E uid \in Subject, o \in Outcomes : CallbackResendOtp(uid, o)
    \/ \E uid \in Subject, fail \in ({"none", "sp_get_session", "os_remove", "sp_delete_session"}) : CallbackLogoutConfirm(uid, fail)
    \/ \E uid \in Subject : logout_cancel_cb(uid)
    \/ \E uid \in Subject : ConnectionDrop(uid)
    \/ \E file \in authorized_keys : PlatformRevoke(file)

Spec == Init /\ [][Next]_vars

\* SpecMulti: all users act concurrently, each with one message and one
\* outcome per branch of the login and logout handlers

CoreOutcomes ==
    {[fail |-> "none", sign_in |-> r, hash |-> 1] :
        r \in {"ok", "SessionPasswordNeeded"}}

NextMulti ==
    \/ \E uid \in Users, msg \in {PhoneA, TaggedOtp, CmdLogin, CmdStopLogin, CmdLogout} :
           NewMessage(uid, msg)
    \/ \E fail \in {"none", "connect"} : login_cmd(fail)
    \/ stoplogin_cmd
    \/ \E o \in CoreOutcomes : LoginFlow(o)
    \/ logout_cmd("none")
    \/ \E uid \in Users : CallbackLogoutConfirm(uid, "none")
    \/ \E file \in authorized_keys : PlatformRevoke(file)

SpecMulti == Init /\ [][NextMulti]_vars

\* SpecRace: one user's login, logout and link-creation handlers, with
\* get_user_client of cb_pin_create_links suspended in safe_connect while
\* the other handlers run

NextRace ==
    \/ \E uid \in Subject, msg \in {CmdLogin, PhoneA, TaggedOtp, CmdLogout, CmdCreateLink} :
           NewMessage(uid, msg)
    \/ \E fail \in {"none", "connect"} : login_cmd(fail)
    \/ \E o \in CoreOutcomes : LoginFlow(o)
    \/ \E fail \in {"none", "connect"} : logout_cmd(fail)
    \/ \E fail \in {"none", "connect"}, plan \in BOOLEAN :
           create_link_cmd(fail, plan)
    \/ \E uid \in Subject, fail \in ({"none", "sp_get_session", "os_remove", "sp_delete_session"}) :
           CallbackLogoutConfirm(uid, fail)
    \/ \E uid \in Subject, fail \in {"none", "sp_get_session"} :
           cb_pin_create_links_begin(uid, fail)
    \/ \E uid \in Subject, fail \in {"none", "connect", "is_user_authorized"} :
           cb_pin_create_links_connected(uid, fail)
    \/ \E uid \in Subject, pairs \in ({<<>>} \cup {[k \in 1..n |-> k] : n \in (1..NumChats)}) :
           cb_pin_create_links_dialogs(uid, pairs)
    \/ \E uid \in Subject : ConnectionDrop(uid)
    \/ \E file \in authorized_keys : PlatformRevoke(file)

SpecRace == Init /\ [][NextRace]_vars

\* The link specifications start the bot with a persistent store that an
\* earlier run of the bot filled: every user logged in with PhoneA, the
\* links were created and their joins synchronized when account 1 had joined
\* through each of them.  The chat history of every user still holds the
\* keyboards of that run, so every button can be pressed.
StoredSession(u) ==
    [phone |-> PhoneA, session_file |-> session_path(u, PhoneA),
     is_active |-> TRUE]

\* user 1 owns links 1 and 3 and user 2 owns the other links; link l is of
\* chat 1 or 2
StoredOwner(l) == IF l \in {1, 3} THEN 1 ELSE 2

StoredLink(l) == [id |-> l, user_id |-> StoredOwner(l), chat_id |-> 2 - (l % 2)]

\* the links of the earlier run: all ids but the last one
StoredIds == 1..(MaxLinks - 1)

StoredJoin(l) ==
    [user_id |-> StoredOwner(l), chat_id |-> StoredLink(l).chat_id,
     invite_link_id |-> l, joined_user_id |-> 1,
     joined_username |-> [label |-> "@", id |-> 1], joined_at |-> 1]

\* the buttons of the messages an earlier run left in the chats, the
\* selection message of /stats among them
LinkButtons == {"pin_create_links", "msel", "rem", "stats", "stats_all_cmd"}

InitStored ==
    /\ login_state = [u \in Users |-> NoEntry]
    /\ user_sessions = [u \in Users |-> StoredSession(u)]
    /\ USER_CLIENT_CACHE = [u \in Users |-> NoClient]
    /\ session_files = {session_path(u, PhoneA) : u \in Users}
    /\ authorized_keys = {session_path(u, PhoneA) : u \in Users}
    /\ buttons = [u \in Users |-> LinkButtons]
    /\ dispatch = NoDispatch
    /\ logged_out = [u \in Users |-> FALSE]
    /\ last = NoLast
    /\ select_state = [u \in Users |-> NoSelect]
    /\ stats_state = [u \in Users |-> NoStats]
    /\ invite_links = [k \in StoredIds |-> StoredLink(MaxLinks - k)]
    /\ link_seq = MaxLinks - 1
    /\ joins = {StoredJoin(l) : l \in StoredIds}
    /\ importers = [l \in LinkIds |->
                       IF l \in StoredIds THEN {([user_id |-> 1, date |-> 1])} ELSE {}]
    /\ pin_task = [u \in Users |-> NoPin]
    /\ sync_task = [u \in Users |-> NoSync]
    /\ stats_pages = [u \in Users |-> [m \in MsgIds |-> NoPage]]
    /\ page_kb = [u \in Users |-> [m \in MsgIds |-> {}]]
    /\ render_task = [u \in Users |-> [m \in MsgIds |-> {}]]
    /\ plan_active = [u \in Users |-> TRUE]
    /\ flow_task = [u \in Users |-> NoFlow]

\* the indexes of the buttons of the longest multi-select keyboard
ButtonIndexes == 1..(IF NumChats > MaxLinks THEN NumChats ELSE MaxLinks)

\* SpecSelect: the users select links and chats, confirm and cancel
NextSelect ==
    \/ \E uid \in Users : NewCommand(uid, CmdRemoveLink)
    \/ \E plan \in BOOLEAN : remove_link_cmd("none", plan)
    \/ \E uid \in Users, i \in ButtonIndexes : cb_toggle(uid, i)
    \/ \E uid \in Users : cb_msel_done(uid, "none", {})
    \/ \E uid \in Users, fail \in {"none", "delete_joins", "delete_links"} :
           cb_rem_confirm(uid, fail)
    \/ \E uid \in Users : cb_rem_cancel(uid)
    \/ \E uid \in Users : cb_msel_cancel(uid)

SpecSelect == InitStored /\ [][NextSelect]_vars

\* SpecSync: user 1 asks for stats; every request synchronizes the joins of
\* the user's links while accounts keep joining through them
SubjectLinks == {l \in StoredIds : StoredOwner(l) \in Subject}

\* the name lookups of one iteration: every account has a username, or
\* every get_entity fails

NextSync ==
    \/ \E uid \in Subject : NewCommand(uid, CmdStats)
    \/ \E plan \in BOOLEAN : stats_all_cmd("none", plan)
    \/ \E uid \in Subject, m \in MsgIds, l \in SubjectLinks,
          fail \in {"none", "connect"} : cb_stats_link(uid, m, l, fail)
    \/ \E uid \in Subject, m \in MsgIds : cb_stats_page(uid, m, "close")
    \/ \E uid \in Subject, names \in ({[a \in Accounts \ {0} |-> kind] : kind \in {"username", "error"}}),
          fail \in {"none", "get_input_entity", "GetChatInviteImporters",
                    "delete", "insert"} :
           sync_importers_step(uid, fail, names)
    \/ \E l \in SubjectLinks, a \in Accounts : PlatformImport(l, a)

SpecSync == InitStored /\ [][NextSync]_vars

\* SpecSyncRace: the user removes links while a sync runs; no call of the
\* sync fails and no account joins
NextSyncRace ==
    \/ \E uid \in Subject : NewCommand(uid, CmdStats)
    \/ stats_all_cmd("none", TRUE)
    \/ \E uid \in Subject, m \in MsgIds, l \in SubjectLinks :
          cb_stats_link(uid, m, l, "none")
    \/ \E uid \in Subject, names \in ({[a \in Accounts \ {0} |-> kind] : kind \in {"username", "error"}}) :
          sync_importers_step(uid, "none", names)
    \/ \E uid \in Subject, m \in MsgIds : cb_stats_page(uid, m, "close")
    \/ \E uid \in Subject : NewCommand(uid, CmdRemoveLink)
    \/ remove_link_cmd("none", TRUE)
    \/ \E uid \in Subject, i \in ButtonIndexes : cb_toggle(uid, i)
    \/ \E uid \in Subject : cb_msel_done(uid, "none", {})
    \/ \E uid \in Subject : cb_rem_confirm(uid, "none")

SpecSyncRace == InitStored /\ [][NextSyncRace]_vars

PagedNames == [a \in 1..PagedJoins |-> "username"]

InitPaged ==
    /\ login_state = [u \in Users |-> NoEntry]
    /\ user_sessions = [u \in Users |-> StoredSession(u)]
    /\ USER_CLIENT_CACHE = [u \in Users |-> NoClient]
    /\ session_files = {session_path(u, PhoneA) : u \in Users}
    /\ authorized_keys = {session_path(u, PhoneA) : u \in Users}
    /\ buttons = [u \in Users |-> LinkButtons]
    /\ dispatch = NoDispatch
    /\ logged_out = [u \in Users |-> FALSE]
    /\ last = NoLast
    /\ select_state = [u \in Users |-> NoSelect]
    /\ stats_state = [u \in Users |-> NoStats]
    /\ invite_links = [k \in StoredIds |-> StoredLink(MaxLinks - k)]
    /\ link_seq = MaxLinks - 1
    /\ importers = [l \in LinkIds |->
            IF l = 1
            THEN {[user_id |-> a, date |-> 1 + (a % 3)] : a \in 1..PagedJoins}
            ELSE IF l = 2
            THEN {[user_id |-> a, date |-> 1] : a \in 1..page_size}
            ELSE IF l \in StoredIds THEN {([user_id |-> 1, date |-> 1])} ELSE {}]
    /\ joins = UNION {join_rows(StoredOwner(l), StoredLink(l), PagedNames) :
                         l \in StoredIds}
    /\ pin_task = [u \in Users |-> NoPin]
    /\ sync_task = [u \in Users |-> NoSync]
    /\ stats_pages = [u \in Users |-> [m \in MsgIds |-> NoPage]]
    /\ page_kb = [u \in Users |-> [m \in MsgIds |-> {}]]
    /\ render_task = [u \in Users |-> [m \in MsgIds |-> {}]]
    /\ plan_active = [u \in Users |-> TRUE]
    /\ flow_task = [u \in Users |-> NoFlow]

\* the link of the stats button a user presses: the lowest link the user
\* owned at the restart, still stored or removed since
StoredFirst(uid) ==
    CHOOSE l \in StoredIds :
        /\ StoredOwner(l) = uid
        /\ \A k \in StoredIds : StoredOwner(k) = uid => l <= k

\* the users of SpecPages
PagerUsers == Subject \cup {2}

\* user 1 opens pages on every message, the other users on message 1
PagerMsgs(uid) == IF uid \in Subject THEN MsgIds ELSE {1}

\* opening and closing pages
OpenClose(U) ==
    \/ \E uid \in U : NewCommand(uid, CmdStats)
    \/ stats_all_cmd("none", TRUE)
    \/ \E uid \in U : \E m \in PagerMsgs(uid) :
          cb_stats_link(uid, m, StoredFirst(uid), "none")
    \/ \E uid \in U : sync_importers_step(uid, "none", PagedNames)
    \/ \E uid \in U : \E m \in PagerMsgs(uid) : cb_stats_page(uid, m, "close")

\* next and prev on message 1 of user 1
Turn == \E uid \in Subject, action \in {"next", "prev"} :
           cb_stats_page(uid, 1, action)

Render(outcomes) ==
    \E uid \in Subject, outcome \in outcomes :
        \E rt \in render_task[uid][1] : render_stats_page(uid, 1, rt, outcome)

NextPager == OpenClose(Subject) \/ Turn \/ Render(({"ok", "fetch_error", "client_error"}))

SpecPager == InitPaged /\ [][NextPager]_vars

\* SpecPages: SpecPager with user 2 opening and closing pages as well; no
\* render of user 1 fails
NextPages == OpenClose(PagerUsers) \/ Turn \/ Render({"ok"})

SpecPages == InitPaged /\ [][NextPages]_vars

\* SpecWindow: the two stats queries on stores whose joins lie before, at and
\* after the bounds of the window
Times == 1..MaxTime

InitWindow ==
    /\ login_state = [u \in Users |-> NoEntry]
    /\ user_sessions = [u \in Users |-> StoredSession(u)]
    /\ USER_CLIENT_CACHE = [u \in Users |-> NoClient]
    /\ session_files = {session_path(u, PhoneA) : u \in Users}
    /\ authorized_keys = {session_path(u, PhoneA) : u \in Users}
    /\ buttons = [u \in Users |-> LinkButtons]
    /\ dispatch = NoDispatch
    /\ logged_out = [u \in Users |-> FALSE]
    /\ last = NoLast
    /\ select_state = [u \in Users |-> NoSelect]
    /\ stats_state = [u \in Users |-> NoStats]
    /\ invite_links = [k \in StoredIds |-> StoredLink(MaxLinks - k)]
    /\ link_seq = MaxLinks - 1
    /\ importers = [l \in LinkIds |-> {}]
    /\ joins \in SUBSET
          ({[user_id |-> 1, chat_id |-> 1, invite_link_id |-> 1,
             joined_user_id |-> t, joined_username |-> [label |-> "@", id |-> t],
             joined_at |-> t] : t \in Times}
           \cup {StoredJoin(l) : l \in {2, 3}})
    /\ pin_task = [u \in Users |-> NoPin]
    /\ sync_task = [u \in Users |-> NoSync]
    /\ stats_pages = [u \in Users |-> [m \in MsgIds |-> NoPage]]
    /\ page_kb = [u \in Users |-> [m \in MsgIds |-> {}]]
    /\ render_task = [u \in Users |-> [m \in MsgIds |-> {}]]
    /\ plan_active = [u \in Users |-> TRUE]
    /\ flow_task = [u \in Users |-> NoFlow]

\* both queries for one link and window on the store as it is
StatsQueries(uid, invite_link_id, since, until) ==
    /\ last' = [NoLast EXCEPT
                   !.op = "stats_queries", !.uid = uid, !.arg = invite_link_id,
                   !.query = [since |-> since, until |-> until,
                              count |-> sp_count_joins_for_link(
                                            joins, uid, invite_link_id, since,
                                            until),
                              fetched |-> sp_fetch_joins_for_link(
                                              joins, uid, invite_link_id, since,
                                              until, 0, page_size)]]
    /\ UNCHANGED <<login_state, user_sessions, USER_CLIENT_CACHE, session_files,
                   authorized_keys, buttons, dispatch, logged_out, linkVars>>

NextWindow ==
    \E uid \in Users, l \in StoredIds, since \in {0} \cup Times,
       until \in {0} \cup Times : StatsQueries(uid, l, since, until)

SpecWindow == InitWindow /\ [][NextWindow]_vars

\* SpecPlan: user 1 removes links and asks for stats while the subscription
\* runs out
NextPlan ==
    \/ \E uid \in Subject : NewCommand(uid, CmdRemoveLink)
    \/ \E plan \in BOOLEAN : remove_link_cmd("none", plan)
    \/ \E uid \in Subject, i \in ButtonIndexes : cb_toggle(uid, i)
    \/ \E uid \in Subject : cb_msel_done(uid, "none", {})
    \/ \E uid \in Subject : cb_rem_confirm(uid, "none")
    \/ \E uid \in Subject : NewCommand(uid, CmdStats)
    \/ \E plan \in BOOLEAN : stats_all_cmd("none", plan)
    \/ \E uid \in Subject, l \in SubjectLinks : cb_stats_link(uid, 1, l, "none")
    \/ \E uid \in Subject : sync_importers_step(uid, "none", PagedNames)
    \/ \E uid \in Subject : PlanExpires(uid)

SpecPlan == InitStored /\ [][NextPlan]_vars

\* An entity is listed as <<id, type, username, creator, admin_rights>>;
\* Entity gives the attributes top_dialog_pairs reads their names.
Entity(e) ==
    [id |-> e[1], type |-> e[2], username |-> e[3], creator |-> e[4],
     admin_rights |-> e[5]]

\* the kinds of dialog, as type, username, creator, admin_rights: a 1-1
\* chat, groups, private and public channels, with and without rights, and
\* an inaccessible chat
Kinds ==
    <<<<"User", TRUE, FALSE, FALSE>>,
      <<"Chat", FALSE, TRUE, FALSE>>,
      <<"Chat", FALSE, FALSE, TRUE>>,
      <<"Chat", FALSE, FALSE, FALSE>>,
      <<"Channel", FALSE, TRUE, FALSE>>,
      <<"Channel", TRUE, TRUE, TRUE>>,
      <<"Channel", FALSE, FALSE, FALSE>>,
      <<"ChatForbidden", FALSE, FALSE, FALSE>>,
      <<"Channel", FALSE, FALSE, TRUE>>>>

\* the dialog of kind k; its id is k
KindDialog(k) == <<k>> \o Kinds[k]

\* dialog k of a long list: a group of the user, every fourth one a public
\* channel of the user
LongDialog(k) ==
    IF k % 4 = 0 THEN <<Len(Kinds) + k, "Channel", TRUE, TRUE, FALSE>>
    ELSE <<Len(Kinds) + k, "Chat", FALSE, TRUE, FALSE>>

TopDialogPairs(entities) ==
    /\ LET dialogs == [k \in 1..Len(entities) |-> Entity(entities[k])]
       IN  last' = [NoLast EXCEPT !.op = "top_dialog_pairs",
                                  !.dialogs = dialogs,
                                  !.pairs = top_dialog_pairs(dialogs, TOP_N)]
    /\ UNCHANGED <<login_state, user_sessions, USER_CLIENT_CACHE, session_files,
                   authorized_keys, buttons, dispatch, logged_out, linkVars>>

\* SpecDialogs: top_dialog_pairs on dialog lists of every kind of entity
\* and on lists with fewer and more than TOP_N chats that pass: no dialog,
\* one or two dialogs of any kind, and long lists in both orders
NextDialogs ==
    \E entities \in
          {<<>>} \cup {<<KindDialog(a)>> : a \in DOMAIN Kinds}
          \cup {<<KindDialog(x[1]), KindDialog(x[2])>> :
                    x \in {y \in (DOMAIN Kinds) \X (DOMAIN Kinds) : y[1] # y[2]}}
          \cup {[k \in 1..n |-> LongDialog(k)] : n \in 1..(TOP_N + 8)}
          \cup {[k \in 1..n |-> LongDialog(n + 1 - k)] : n \in 1..(TOP_N + 8)} :
        TopDialogPairs(entities)

SpecDialogs == Init /\ [][NextDialogs]_vars

\* the user has no workflow open: a user of SpecUsers starts a command
\* after finishing or closing what the previous one opened
Quiet(uid) ==
    /\ ~InLogin(uid)
    /\ select_state[uid] = NoSelect
    /\ stats_state[uid] = NoStats
    /\ ~sync_task[uid].active
    /\ \A m \in MsgIds : stats_pages[uid][m] = NoPage /\ render_task[uid][m] = {}

\* SpecUsers: two users of the restarted bot, each going through removal,
\* statistics with its sync and page, logout and a new login, their
\* handlers interleaved in every order
NextUsers ==
    \/ \E uid \in PagerUsers : Quiet(uid) /\ NewMessage(uid, CmdLogin)
    \/ \E uid \in PagerUsers, msg \in {PhoneA, TaggedOtp} : NewMessage(uid, msg)
    \/ \E uid \in PagerUsers, msg \in {CmdLogout, CmdRemoveLink, CmdStats} :
           Quiet(uid) /\ NewCommand(uid, msg)
    \/ login_cmd("none")
    \/ \E o \in {x \in CoreOutcomes : x.sign_in = "ok"} : LoginFlow(o)
    \/ logout_cmd("none")
    \/ \E uid \in PagerUsers : CallbackLogoutConfirm(uid, "none")
    \/ remove_link_cmd("none", TRUE)
    \/ \E uid \in PagerUsers : cb_toggle(uid, 1)
    \/ \E uid \in PagerUsers : cb_msel_done(uid, "none", {})
    \/ \E uid \in PagerUsers : cb_rem_confirm(uid, "none")
    \/ stats_all_cmd("none", TRUE)
    \/ \E uid \in PagerUsers : cb_stats_link(uid, 1, StoredFirst(uid), "none")
    \/ \E uid \in PagerUsers :
           sync_importers_step(uid, "none", [a \in Accounts \ {0} |-> "username"])
    \/ \E uid \in PagerUsers : cb_stats_page(uid, 1, "close")

SpecUsers == InitStored /\ [][NextUsers]_vars

\* ------------------------------------------------------------ safe_connect
\* the default of parameter retries of safe_connect
retries == 3

\* The for loop of safe_connect from the given attempt on.  results[k] is
\* what client.connect() does in attempt k: "connected" (it returns and
\* is_connected() is True), "not_connected" (it returns and is_connected()
\* is False) or "raise".  The sleep between attempts changes no state.
RECURSIVE safe_connect_loop(_, _)
safe_connect_loop(results, attempt) ==
    IF attempt > retries THEN [ok |-> FALSE, attempts |-> retries]
    ELSE IF results[attempt] = "connected"
    THEN [ok |-> TRUE, attempts |-> attempt]
    ELSE safe_connect_loop(results, attempt + 1)

\* safe_connect(client): first is what the is_connected() test before the
\* loop does (an exception of it is passed over); ok: it returned, not ok:
\* it raised; attempts: the calls of client.connect() it made
safe_connect(first, results) ==
    IF first = "connected" THEN [ok |-> TRUE, attempts |-> 0]
    ELSE safe_connect_loop(results, 1)

\* the connect a handler makes for a user: get_user_client and cb_resend_otp
\* call safe_connect(client); the three steps of login_flow call
\* client.connect() once, and an exception of it ends the step
user_connect(site, first, results) ==
    IF site \in {"get_user_client", "cb_resend_otp"}
    THEN safe_connect(first, results)
    ELSE [ok |-> results[1] = "connected", attempts |-> 1]

\* SpecConnect: each connect made for a user, under every behaviour of the
\* connection over the attempts safe_connect can make
NextConnect ==
    \E site \in {"get_user_client", "cb_resend_otp", "login_flow_phone",
                 "login_flow_otp", "login_flow_2fa"},
       first \in {"connected", "not_connected", "raise"},
       results \in [1..retries -> {"connected", "not_connected", "raise"}] :
        /\ LET r == user_connect(site, first, results)
           IN  last' = [NoLast EXCEPT !.op = "connect",
                                      !.path = site,
                                      !.client = ClientResult(r),
                                      !.arg = r.attempts,
                                      !.connects = <<first>> \o results]
        /\ UNCHANGED <<login_state, user_sessions, USER_CLIENT_CACHE,
                       session_files, authorized_keys, buttons, dispatch,
                       logged_out, linkVars>>

SpecConnect == Init /\ [][NextConnect]_vars

\* SpecStats: user 1 sends /stats and /hour_status in any order and presses
\* link buttons under their selection messages: message 1 is the selection
\* message of /stats, message 2 that of /hour_status.  The callback data
\* names the first link of user 1 or of user 2; an open page is queried
\* as render_stats_page queries it; the sync cannot resolve some chats and
\* finds no username (its rows differ from the stored ones), and the
\* connection of the cached client drops.
NextStats ==
    \/ \E uid \in Subject, msg \in {CmdStats, CmdHourStatus} :
          NewCommand(uid, msg)
    \/ stats_all_cmd("none", TRUE)
    \/ \E now \in 2..MaxTime : stats_hour_cmd(now, "none", TRUE)
    \/ \E uid \in Subject, m \in MsgIds, l \in {StoredFirst(u) : u \in PagerUsers} :
          /\ (IF m = 1 THEN "stats_all_cmd" ELSE "stats_hour_cmd") \in buttons[uid]
          /\ \E fail \in {"none", "connect"} : cb_stats_link(uid, m, l, fail)
    \/ \E uid \in Subject, fail \in {"none", "get_input_entity"} :
          sync_importers_step(uid, fail, [a \in Accounts \ {0} |-> "error"])
    \/ \E uid \in Subject, m \in MsgIds :
          /\ stats_pages[uid][m] # NoPage
          /\ StatsQueries(uid, stats_pages[uid][m].link_id,
                          stats_pages[uid][m].since, stats_pages[uid][m].until)
    \/ \E uid \in Subject, m \in MsgIds : cb_stats_page(uid, m, "close")
    \/ \E uid \in Subject : ConnectionDrop(uid)

SpecStats == InitStored /\ [][NextStats]_vars

\* --------------------------------------- login_flow suspended in the OTP step
\* login_flow in step otp up to its await of client.sign_in: it has read the
\* phone and the code hash from the login_state entry, created the client
\* (and its .session file) and connected.  While it waits for the platform
\* the bot handles the next messages of the user.
login_flow_otp_begin ==
    LET uid == dispatch.uid
        st == login_state[uid]
    IN  /\ dispatch.stage = "login_flow"
        /\ st.step = "otp"
        /\ OTP_RE(Strip(dispatch.msg))
        /\ st.phone # <<>>
        /\ st.phone_code_hash # 0
        /\ ~flow_task[uid].active
        /\ flow_task' = [flow_task EXCEPT ![uid] =
                            [active |-> TRUE, phone |-> st.phone]]
        /\ session_files' = session_files \cup {session_path(uid, st.phone)}
        /\ dispatch' = Advance(StageAfterFlow(dispatch.msg))
        /\ last' = Record("login_flow", uid, "sign_in_pending", {"connect"},
                          [phone |-> st.phone, hash |-> st.phone_code_hash],
                          "none")
        /\ UNCHANGED <<login_state, user_sessions, USER_CLIENT_CACHE,
                       authorized_keys, buttons, logged_out, select_state,
                       stats_state, invite_links, link_seq, joins, importers,
                       pin_task, sync_task, pageVars, plan_active>>

\* the rest of that handler once sign_in has returned ("ok") or raised
\* PhoneCodeInvalidError: after "ok" it calls get_me and sp_upsert_session
\* with the phone it read before the await, replies, and pops login_state[uid];
\* after the error it only replies
login_flow_otp_resume(uid, sign_in) ==
    LET t == flow_task[uid]
        local == session_path(uid, t.phone)
        ok == sign_in = "ok"
    IN  /\ t.active
        /\ flow_task' = [flow_task EXCEPT ![uid] = NoFlow]
        /\ user_sessions' = IF ok
                            THEN sp_upsert_session(user_sessions, uid, t.phone,
                                                   local)
                            ELSE user_sessions
        /\ authorized_keys' = IF ok THEN authorized_keys \cup {local}
                              ELSE authorized_keys
        /\ login_state' = IF ok THEN [login_state EXCEPT ![uid] = NoEntry]
                          ELSE login_state
        /\ logged_out' = [logged_out EXCEPT ![uid] = @ /\ ~ok]
        /\ last' = Record("login_flow", uid,
                          IF ok THEN "signed_in" ELSE "wrong_code",
                          IF ok THEN {"sign_in", "get_me", "sp_upsert_session"}
                          ELSE {"sign_in"},
                          NoSent, "none")
        /\ UNCHANGED <<USER_CLIENT_CACHE, session_files, buttons, dispatch,
                       select_state, stats_state, invite_links, link_seq,
                       joins, importers, pin_task, sync_task, pageVars,
                       plan_active>>

\* SpecSuspend: user 1 logs in; the handler of a code may be suspended on
\* sign_in while the user sends /stoplogin, /login, a phone or another code
NextSuspend ==
    \/ \E uid \in Subject,
          msg \in {CmdLogin, CmdStopLogin, PhoneA, PhoneB, TaggedOtp} :
          NewMessage(uid, msg)
    \/ login_cmd("none")
    \/ stoplogin_cmd
    \/ \E o \in {x \in CoreOutcomes : x.sign_in \in {"ok", "PhoneCodeInvalid"}} :
          LoginFlow(o)
    \/ login_flow_otp_begin
    \/ \E uid \in Subject, sign_in \in {"ok", "PhoneCodeInvalid"} :
          login_flow_otp_resume(uid, sign_in)

SpecSuspend == Init /\ [][NextSuspend]_vars

\* ------------------------------------------------------------------ claims
\* The formats as the specification words them, independent of PHONE_RE and
\* OTP_RE: '+' followed by 6 to 15 digits; an optional HELLO tag (any case,
\* optionally followed by blanks) followed by 4 to 8 digits.
PhonePattern(s) ==
    \E n \in 6..15 :
        /\ Len(s) = n + 1
        /\ s[1] = "+"
        /\ \A i \in 2..(n + 1) : s[i] \in Digits

IsHelloTag(t) ==
    /\ Len(t) >= 5
    /\ <<t[1], t[2], t[3], t[4], t[5]>> \in
          {"H", "h"} \X {"E", "e"} \X {"L", "l"} \X {"L", "l"} \X {"O", "o"}
    /\ \A i \in 6..Len(t) : t[i] = " "

OtpPattern(s) ==
    \E k \in 0..Len(s) :
        /\ k = 0 \/ IsHelloTag(SubSeq(s, 1, k))
        /\ Len(s) - k \in 4..8
        /\ \A i \in (k + 1)..Len(s) : s[i] \in Digits

\* the handler that just ran is login_flow, started for a user in step
FlowRan(step) ==
    /\ dispatch.stage = "login_flow"
    /\ last'.op = "login_flow"
    /\ login_state[dispatch.uid].step = step

\* C1: when sign_in rejects the submitted code as wrong (PhoneCodeInvalid) in
\* the OTP step, the user's login_state entry (phone and code hash) is gone
\* when login_flow finishes.
C1_WrongCodeDiscardsProgress ==
    (last.op = "login_flow" /\ last.step = "otp" /\ last.path = "wrong_code")
        => login_state[last.uid] = NoEntry

\* C2: when sign_in rejects the submitted password as wrong
\* (PasswordHashInvalid) in the 2FA step, the user's login_state entry is
\* retained with step 2fa when login_flow finishes.
C2_WrongPasswordKeepsProgress ==
    (last.op = "login_flow" /\ last.step = "2fa" /\ last.path = "wrong_password")
        => login_state[last.uid].step = "2fa"

\* C3 as claimed: a message matching the phone pattern, received in the
\* phone step, always leaves the user in the OTP step or authenticated
\* (Session row persisted, login_state entry removed), whatever the calls do.
C3_PhoneStepOtpOrAuthenticated ==
    [][FlowRan("phone") /\ PhonePattern(Strip(dispatch.msg))
        => \/ login_state'[dispatch.uid].step = "otp"
           \/ /\ login_state'[dispatch.uid] = NoEntry
              /\ user_sessions'[dispatch.uid] # NoRow]_vars

\* C3 as amended: such a message leaves the user in the OTP step, or
\* authenticated, or - only on the branch where a call of the step raised -
\* still in the phone step with the submitted phone recorded; never in the
\* 2FA step and never idle without a Session row.
C3_PhoneStepOtpAuthenticatedOrError ==
    [][FlowRan("phone") /\ PhonePattern(Strip(dispatch.msg))
        => \/ login_state'[dispatch.uid].step = "otp"
           \/ /\ login_state'[dispatch.uid] = NoEntry
              /\ user_sessions'[dispatch.uid] # NoRow
           \/ /\ last'.path = "otp_send_error"
              /\ login_state'[dispatch.uid].step = "phone"
              /\ login_state'[dispatch.uid].phone = Strip(dispatch.msg)]_vars

C3_Witness ==
    /\ last.op = "login_flow"
    /\ last.step = "phone"
    /\ last.path = "otp_send_error"
    /\ login_state[last.uid].step = "phone"
    /\ login_state[last.uid].phone = PhoneB

\* C4: a message that fails the format check of its step (phone pattern in
\* the phone step, OTP pattern in the OTP step) leaves login_state exactly
\* unchanged, persists no Session row and makes no user-client or store call.
C4_InvalidInputChangesNothing ==
    [][\/ FlowRan("phone") /\ ~PhonePattern(Strip(dispatch.msg))
       \/ FlowRan("otp") /\ ~OtpPattern(Strip(dispatch.msg))
        => /\ login_state' = login_state
           /\ user_sessions' = user_sessions
           /\ last'.calls = {}]_vars

C4_Witness ==
    /\ last.op = "login_flow"
    /\ last.step = "otp"
    /\ last.path = "invalid_otp"
    /\ login_state[last.uid].phone_code_hash # 0

\* the branches of login_flow that report a successful login
AuthenticatedPaths == {"already_authorized", "signed_in", "twofa_verified"}

C6_StopLoginCancelsOnlySender ==
    [][last'.op = "stoplogin_cmd"
        => /\ login_state'[dispatch.uid] = NoEntry
           /\ user_sessions' = user_sessions
           /\ \A v \in Users \ {dispatch.uid} :
                 login_state'[v] = login_state[v]]_vars

C6_Witness ==
    /\ last.op = "stoplogin_cmd"
    /\ last.step = "2fa"
    /\ login_state[last.uid] = NoEntry
    /\ user_sessions[last.uid] # NoRow
    /\ \E v \in Users \ {last.uid} : login_state[v].step = "otp"

\* C7: an error of code or password verification other than wrong code /
\* wrong password ends the attempt: when login_flow finishes the user has no
\* login_state entry, so further codes or passwords are not accepted.
C7_VerificationErrorEndsAttempt ==
    (/\ last.op = "login_flow"
     /\ last.step \in {"otp", "2fa"}
     /\ last.path \in {"login_failed", "twofa_failed"})
        => login_state[last.uid] = NoEntry

\* C8: a resend by a user in the OTP step keeps the step and the phone,
\* requests the code for the stored phone, and stores the hash the request
\* returned; when no code was returned the stored hash is kept.
C8_ResendKeepsOtpStep ==
    [][last'.op = "cb_resend_otp" /\ login_state[last'.uid].step = "otp"
        => LET old == login_state[last'.uid]
               new == login_state'[last'.uid]
           IN  /\ new.step = "otp"
               /\ new.phone = old.phone
               /\ new.twofa_session_path = old.twofa_session_path
               /\ IF last'.sent = NoSent
                  THEN new.phone_code_hash = old.phone_code_hash
                  ELSE /\ last'.sent.phone = old.phone
                       /\ new.phone_code_hash = last'.sent.hash]_vars

C8_Witness ==
    /\ last.op = "cb_resend_otp"
    /\ last.step = "otp"
    /\ last.path = "otp_resent"
    /\ last.sent.phone = PhoneB
    /\ login_state[last.uid].phone_code_hash = 2

\* C9 as claimed: /logout and logout_cancel leave the Session rows, the
\* credential files and the client cache unchanged.
C9_LogoutAloneChangesNothing ==
    [][last'.op \in {"logout_cmd", "logout_cancel_cb"}
        => /\ user_sessions' = user_sessions
           /\ session_files' = session_files
           /\ USER_CLIENT_CACHE' = USER_CLIENT_CACHE]_vars

\* C9 as amended: logout_cancel changes none of them; /logout changes no
\* Session row and removes no credential file, no key and no cache entry (its
\* login check may add the user's client to the cache and create the file);
\* a Session row, a file or a cache entry disappears only in logout_confirm.
C9_OnlyConfirmDeletes ==
    [][/\ last'.op = "logout_cancel_cb"
          => /\ user_sessions' = user_sessions
             /\ session_files' = session_files
             /\ USER_CLIENT_CACHE' = USER_CLIENT_CACHE
       /\ last'.op = "logout_cmd" => user_sessions' = user_sessions
       /\ (\/ \E u \in Users : user_sessions[u] # NoRow /\ user_sessions'[u] = NoRow
           \/ \E f \in session_files : f \notin session_files'
           \/ \E u \in Users : /\ USER_CLIENT_CACHE[u].present
                               /\ ~USER_CLIENT_CACHE'[u].present)
          => last'.op = "logout_confirm_cb"]_vars

C9_Witness ==
    /\ last.op = "logout_cmd"
    /\ last.path = "are_you_sure"
    /\ "connect" \in last.calls
    /\ USER_CLIENT_CACHE[last.uid].connected

\* C10: once logout_confirm has completed for a user who had a Session row,
\* the user has no Session row, no cache entry and no credential file, and
\* until a Session is persisted again every get_user_client call for that
\* user fails.
C10_LogoutRemovesEverything ==
    [][/\ (last'.op = "logout_confirm_cb" /\ last'.path = "logged_out")
          => /\ user_sessions'[last'.uid] = NoRow
             /\ ~USER_CLIENT_CACHE'[last'.uid].present
             /\ user_sessions[last'.uid].session_file \notin session_files'
       /\ (last'.client # "none" /\ logged_out'[last'.uid])
          => last'.client = "fail"]_vars

\* C11: a get_user_client call that returns a client does so only when a
\* Session row exists for the user and the platform accepts the stored
\* credential, also when logout or login handlers of the same user run
\* while the call is suspended.
C11_ClientOnlyWithSessionAndAuthorization ==
    [][last'.client = "ok" =>
          /\ user_sessions'[last'.uid] # NoRow
          /\ user_sessions'[last'.uid].session_file \in authorized_keys']_vars

\* C12: two successive msel:<i> callbacks of a user for the same in-range
\* index leave the selected set as it was before the first of them.
C12_ToggleTwiceRestores ==
    [][(/\ last.op = "cb_toggle" /\ last.path = "toggled"
        /\ last'.op = "cb_toggle" /\ last'.path = "toggled"
        /\ last'.uid = last.uid /\ last'.arg = last.arg)
       => select_state'[last.uid].selected = last.sel]_vars

\* the second of two successive toggles of a button has run on a selection
\* that holds another index
C12_Witness ==
    /\ last.op = "cb_toggle" /\ last.again
    /\ select_state[last.uid].selected # {}

\* C13: /remove_link, the toggles, Done in remove_links mode and both
\* cancel callbacks leave the rows of invite_links and joins as they are,
\* and a cancel (rem_cancel on a pending confirmation, msel_cancel at any
\* stage) discards the user's selection.
C13_CancelledRemovalChangesNothing ==
    [][/\ (\/ last'.op \in {"remove_link_cmd", "cb_toggle", "cb_rem_cancel",
                             "cb_msel_cancel"}
           \/ /\ last'.op = "cb_msel_done"
              /\ select_state[last'.uid].mode = "remove_links")
          => invite_links' = invite_links /\ joins' = joins
       /\ (\/ last'.op = "cb_msel_cancel"
           \/ /\ last'.op = "cb_rem_cancel"
              /\ select_state[last'.uid].mode = "remove_confirm")
          => select_state'[last'.uid] = NoSelect]_vars

\* a pending confirmation was cancelled and the rows are still there
C13_Witness ==
    /\ last.op = "cb_rem_cancel" /\ last.arg > 0
    /\ select_state[last.uid] = NoSelect
    /\ Len(invite_links) = MaxLinks - 1
    /\ joins # {}

\* C14: a row of invite_links disappears only in a rem_confirm of its owner
\* whose pending confirmation holds the link; a confirmation becomes pending
\* only by Done in remove_links mode and holds exactly the selected rows;
\* a cancel or a new selection leaves no confirmation pending.
C14_DeletedOnlyByConfirmedRemoval ==
    [][/\ \A k \in DOMAIN invite_links :
             invite_links[k] \notin Range(invite_links') =>
                /\ last'.op = "cb_rem_confirm"
                /\ last'.uid = invite_links[k].user_id
                /\ select_state[last'.uid].mode = "remove_confirm"
                /\ invite_links[k].id \in Range(select_state[last'.uid].link_ids)
       /\ \A u \in Users :
             (/\ select_state'[u].mode = "remove_confirm"
              /\ select_state'[u] # select_state[u]) =>
                /\ last'.op = "cb_msel_done" /\ last'.uid = u
                /\ select_state[u].mode = "remove_links"
                /\ Range(select_state'[u].link_ids) =
                      {select_state[u].rows[i + 1].id :
                          i \in select_state[u].selected}
       /\ (\/ last'.op \in {"cb_rem_cancel", "cb_msel_cancel"}
           \/ last'.op = "remove_link_cmd" /\ last'.path = "select_links")
          => select_state'[last'.uid].mode # "remove_confirm"]_vars

\* a confirmed removal deleted a link and left another one
C14_Witness ==
    /\ last.op = "cb_rem_confirm" /\ last.path = "deleted"
    /\ Len(invite_links) = MaxLinks - 2

\* C15: when a confirmed removal completes, no row of joins refers to a
\* removed link, no removed link is left in invite_links, and every other
\* row of both tables is as before.
C15_ConfirmedRemovalCascades ==
    [][(last'.op = "cb_rem_confirm" /\ last'.path = "deleted") =>
          LET ids == Range(select_state[last'.uid].link_ids)
          IN  /\ \A j \in joins' : j.invite_link_id \notin ids
              /\ \A r \in Range(invite_links') : r.id \notin ids
              /\ invite_links' =
                    SelectSeq(invite_links, LAMBDA r : r.id \notin ids)
              /\ joins' = {j \in joins : j.invite_link_id \notin ids}]_vars

\* a removal completed while other links and their joins exist
C15_Witness ==
    /\ last.op = "cb_rem_confirm" /\ last.path = "deleted"
    /\ invite_links # <<>>
    /\ \E j \in joins : j.user_id = last.uid


\* C16: every row of joins names a link that has a row in invite_links.
C16_JoinsReferToLinks ==
    \A j \in joins :
        \E k \in DOMAIN invite_links : invite_links[k].id = j.invite_link_id

\* C17: when a sync iteration has replaced the joins of a link, the user's
\* rows for the link are exactly one row per importer the platform returned
\* with a non-zero account id, carrying that importer's date; no row from
\* before the iteration stays beside them, and the rows of other links are
\* untouched.
C17_SyncReplacesWithImporters ==
    [][(last'.op = "sync_importers_to_db" /\ last'.path = "replaced") =>
          LET uid == last'.uid
              l == last'.arg
              of_link(j) == j.user_id = uid /\ j.invite_link_id = l
              now == {j \in joins' : of_link(j)}
              returned == {imp \in importers[l] : imp.user_id # 0}
          IN  /\ \A imp \in returned :
                    Cardinality({j \in now :
                                    j.joined_user_id = imp.user_id}) = 1
              /\ \A j \in now :
                    \E imp \in returned : /\ j.joined_user_id = imp.user_id
                                          /\ j.joined_at = imp.date
              /\ {j \in joins' : ~of_link(j)} = {j \in joins : ~of_link(j)}]_vars

\* C17 witness: a sync iteration replaced the rows of a link whose importer
\* list holds a deleted account (id 0) and a real one, and the real one's
\* row now carries the "id:" name where the earlier row carried "@".
C17_Witness ==
    /\ last.op = "sync_importers_to_db"
    /\ last.path = "replaced"
    /\ \E imp \in importers[last.arg] : imp.user_id = 0
    /\ \E j \in joins : /\ j.invite_link_id = last.arg
                        /\ j.user_id = last.uid
                        /\ j.joined_username.label = "id:"

\* C18: a sync iteration that reaches the store leaves the joins of its link
\* either as they were or as rows for exactly the importers returned, never
\* as anything in between.
C18_ReplacementIsAtomic ==
    [][(last'.op = "sync_importers_to_db" /\ last'.path # "skipped") =>
          LET uid == last'.uid
              l == last'.arg
              of_link(j) == j.user_id = uid /\ j.invite_link_id = l
              before == {j \in joins : of_link(j)}
              after == {j \in joins' : of_link(j)}
              returned == {imp.user_id :
                              imp \in {x \in importers[l] : x.user_id # 0}}
          IN  \/ after = before
              \/ {j.joined_user_id : j \in after} = returned]_vars

\* C19: a sync iteration on a link whose joins already are what a sync of
\* the current importer list writes leaves those joins as they are.
C19_SyncIsIdempotent ==
    [][(/\ last'.op = "sync_importers_to_db"
        /\ LET t == sync_task[last'.uid]
           IN  /\ t.active
               /\ \E names \in [Accounts \ {0} -> ({"username", "full_name", "none", "error"})] :
                     {j \in joins : /\ j.user_id = last'.uid
                                    /\ j.invite_link_id = last'.arg}
                         = join_rows(last'.uid, t.rows[t.i], names))
       => {j \in joins' : /\ j.user_id = last'.uid
                          /\ j.invite_link_id = last'.arg}
              = {j \in joins : /\ j.user_id = last'.uid
                               /\ j.invite_link_id = last'.arg}]_vars

\* C20: a sync iteration whose platform call fails changes no join and the
\* run goes on with the next link it listed (it ends only after the last
\* one); every iteration handles the link at the run's position, and a run
\* never ends before its last link because of a platform error.
C20_FailedLinkIsSkipped ==
    [][last'.op = "sync_importers_to_db" =>
          LET t == sync_task[last'.uid]
              t2 == sync_task'[last'.uid]
          IN  /\ last'.arg = t.rows[t.i].id
              /\ last'.path = "skipped" =>
                    /\ joins' = joins
                    /\ IF t.i < Len(t.rows)
                       THEN /\ t2.active
                            /\ t2.rows = t.rows
                            /\ t2.i = t.i + 1
                       ELSE ~t2.active
              /\ (~t2.active /\ t.i < Len(t.rows)) =>
                    last'.path = "store_error"]_vars

\* C20 witness: a sync iteration replaced the joins of a link in a run that
\* had skipped an earlier link.
C20_Witness ==
    /\ last.op = "sync_importers_to_db"
    /\ last.path = "replaced"
    /\ last.sel # {}
    /\ last.arg \notin last.sel

\* C21: every page that render_stats_page writes offers prev exactly when the
\* offset it renders is above 0 and next exactly when that offset plus 15 is
\* below the total.  This covers the first page, written when the context is
\* stored, and every page written after a next or prev.
C21_NavigationMatchesOffset ==
    [][/\ (last'.op = "render_stats_page" /\ last'.path = "ok") =>
             LET kb == page_kb'[last'.uid][last'.arg]
             IN  /\ ("prev" \in kb) <=> (last'.page.offset > 0)
                 /\ ("next" \in kb) <=> (last'.page.offset + 15 < last'.page.total)
       /\ \A u \in Users, m \in MsgIds :
             (stats_pages[u][m] = NoPage /\ stats_pages'[u][m] # NoPage
              /\ page_kb'[u][m] # {}) =>
                 /\ stats_pages'[u][m].offset = 0
                 /\ "prev" \notin page_kb'[u][m]
                 /\ ("next" \in page_kb'[u][m]) <=> (15 < stats_pages'[u][m].total)]_vars

\* C21 witness: with 23 joins and pages of 15, the page at offset 15 has
\* been rendered with prev and without next, after a first page that had
\* next and no prev.
C21_Witness ==
    /\ last.op = "render_stats_page"
    /\ last.path = "ok"
    /\ last.page.offset = 15
    /\ last.page.total = 23
    /\ last.page.before.offset = 0
    /\ page_kb[last.uid][last.arg] = {"prev", "close"}

\* C22: the offset of every stats page context is at least 0 and below
\* total + page_size.
C22_OffsetInRange ==
    \A u \in Users, m \in MsgIds :
        stats_pages[u][m] # NoPage =>
            /\ 0 <= stats_pages[u][m].offset
            /\ stats_pages[u][m].offset
                   < stats_pages[u][m].total + stats_pages[u][m].page_size

\* C23: a prev that follows a next on the same message (with only renders of
\* that message in between) leaves the context exactly as it was before the
\* next: the same offset, link, window, page size and total.
C23_NextThenPrevRestores ==
    [][(/\ last'.op = "cb_stats_page"
        /\ last'.path = "prev"
        /\ last.op \in {"cb_stats_page", "render_stats_page"}
        /\ last.uid = last'.uid
        /\ last.arg = last'.arg
        /\ last.page.action = "next"
        /\ last.page.before # NoPage)
       => stats_pages'[last'.uid][last'.arg] = last.page.before]_vars

\* C23 witness: next was pressed on a first page, the second page was
\* rendered, prev was pressed and the context is at offset 0 again.
C23_Witness ==
    /\ last.op = "cb_stats_page"
    /\ last.path = "prev"
    /\ last.page.before.offset = 15
    /\ stats_pages[last.uid][last.arg].offset = 0
    /\ page_kb[last.uid][last.arg] = {"prev", "close"}

\* C25: a next, prev or close callback on a stats message, and the render it
\* starts, change only the context, buttons and renders of that user's
\* message; every other message of the same user and of other users keeps
\* its context and its buttons.
C25_PageContextsIndependent ==
    [][last'.op \in {"cb_stats_page", "render_stats_page"} =>
          \A u \in Users, m \in MsgIds :
              (u # last'.uid \/ m # last'.arg) =>
                  /\ stats_pages'[u][m] = stats_pages[u][m]
                  /\ page_kb'[u][m] = page_kb[u][m]
                  /\ render_task'[u][m] = render_task[u][m]]_vars

\* C25 witness: user 1 moved the page of message 1 while message 2 of the
\* same user and a message of user 2 hold open pages with their buttons.
C25_Witness ==
    /\ last.op = "cb_stats_page"
    /\ last.path = "next"
    /\ last.uid = 1
    /\ last.arg = 1
    /\ stats_pages[1][2] # NoPage
    /\ "next" \in page_kb[1][2]
    /\ stats_pages[2][1] # NoPage
    /\ "close" \in page_kb[2][1]

\* C24: for every link, window and store, a join of the link is in the rows
\* fetched unless it lies strictly before since or strictly after until (a
\* bound that is None excludes nothing), so a join at exactly since or
\* exactly until is in; the rows of other links and owners are never in; and
\* the count is the number of those rows.
C24_WindowInclusive ==
    [][last'.op = "stats_queries" =>
          LET q == last'.query
              too_early(j) == q.since # 0 /\ j.joined_at < q.since
              too_late(j) == q.until # 0 /\ j.joined_at > q.until
          IN  /\ \A j \in joins :
                    (j \in q.fetched) <=>
                        /\ j.user_id = last'.uid
                        /\ j.invite_link_id = last'.arg
                        /\ ~too_early(j)
                        /\ ~too_late(j)
              /\ q.fetched \subseteq joins
              /\ q.count = Cardinality(q.fetched)]_vars

\* C24 witness: a window whose two bounds are the same instant, with joins
\* of the link before, at and after it: exactly the join at the instant is
\* counted and fetched.
C24_Witness ==
    /\ last.op = "stats_queries"
    /\ last.query.since = 2
    /\ last.query.until = 2
    /\ last.query.count = 1
    /\ \E j \in last.query.fetched : j.joined_at = 2
    /\ \E j \in joins : j.invite_link_id = last.arg /\ j.joined_at = 1
    /\ \E j \in joins : j.invite_link_id = last.arg /\ j.joined_at = 3

\* C26: a link is created, a link is removed or a stats page is opened for a
\* user only while that user's subscription is active.
C26_PremiumOnlyWithActivePlan ==
    [][(\/ last'.op = "cb_msel_done" /\ last'.path = "links_created"
        \/ last'.op = "cb_rem_confirm" /\ last'.path = "deleted"
        \/ /\ last'.op \in {"cb_stats_link", "sync_importers_to_db"}
           /\ \E m \in MsgIds : /\ stats_pages[last'.uid][m] = NoPage
                                /\ stats_pages'[last'.uid][m] # NoPage)
       => plan_active[last'.uid]]_vars

\* C27: every candidate top_dialog_pairs returns is a dialog of the list
\* that is no 1-1 chat, is a group or a channel, has no public name when it
\* is a channel, and in which the user is creator or has administrator
\* rights; there are at most 14 candidates, each listed once, in the order
\* of the dialog list.
C27_CandidatesArePrivateAdminChats ==
    [][last'.op = "top_dialog_pairs" =>
          LET ds == last'.dialogs
              ps == last'.pairs
              At(id) == CHOOSE k \in 1..Len(ds) : ds[k].id = id
          IN  /\ Len(ps) <= 14
              /\ \A a \in 1..Len(ps) :
                    \E k \in 1..Len(ds) :
                        /\ ds[k].id = ps[a]
                        /\ ds[k].type \in {"Chat", "Channel"}
                        /\ ds[k].type = "Channel" => ~ds[k].username
                        /\ ds[k].creator \/ ds[k].admin_rights
              /\ \A a, b \in 1..Len(ps) : a < b => At(ps[a]) < At(ps[b])]_vars

\* C27 witness: a list with more than 14 chats that pass, public channels
\* among them, gave 14 candidates.
C27_Witness ==
    /\ last.op = "top_dialog_pairs"
    /\ Len(last.pairs) = 14
    /\ Len(last.dialogs) > 19
    /\ \E k \in 1..Len(last.dialogs) : last.dialogs[k].username

\* C28: a handler run for one user changes nothing of any other user: their
\* login_state entry, selection context, stats_state entry, stats pages,
\* cached client, Session row, invite_links rows and joins rows are what
\* they were before, in every order in which the users' handlers run.
C28_StatePartitionedByUser ==
    [][\A b \in Users \ {last'.uid} :
          /\ login_state'[b] = login_state[b]
          /\ select_state'[b] = select_state[b]
          /\ stats_state'[b] = stats_state[b]
          /\ stats_pages'[b] = stats_pages[b]
          /\ USER_CLIENT_CACHE'[b] = USER_CLIENT_CACHE[b]
          /\ user_sessions'[b] = user_sessions[b]
          /\ SelectSeq(invite_links', LAMBDA r : r.user_id = b)
                = SelectSeq(invite_links, LAMBDA r : r.user_id = b)
          /\ {j \in joins' : j.user_id = b} = {j \in joins : j.user_id = b}]_vars

\* C28 witness: a user confirmed a logout while another user, logged in
\* with a cached client, links and joins, had a stats page open.
C28_Witness ==
    /\ last.op = "logout_confirm_cb"
    /\ last.path = "logged_out"
    /\ \E b \in Users \ {last.uid} :
          /\ stats_pages[b][1] # NoPage
          /\ USER_CLIENT_CACHE[b].present
          /\ user_sessions[b] # NoRow
          /\ \E j \in joins : j.user_id = b
          /\ \E k \in DOMAIN invite_links : invite_links[k].user_id = b

\* C29: when logout_confirm has completed for a user, table invite_links
\* holds no row of that user.
C29_LogoutRemovesLinks ==
    (last.op = "logout_confirm_cb" /\ last.path = "logged_out")
        => \A k \in DOMAIN invite_links : invite_links[k].user_id # last.uid

\* C30: Done in remove_links mode changes no table; with a selection it
\* leaves the user a remove_confirm context whose link_ids are the ids of
\* the listed rows at the selected indexes, in ascending index order, and
\* with no selection it leaves the user no context and no confirmation.
C30_DoneResolvesSelectedRows ==
    [][(last'.op = "cb_msel_done"
        /\ select_state[last'.uid].mode = "remove_links") =>
          LET st == select_state[last'.uid]
              new == select_state'[last'.uid]
              nth(k) == CHOOSE i \in st.selected :
                           Cardinality({j \in st.selected : j < i}) = k - 1
          IN  /\ invite_links' = invite_links
              /\ joins' = joins
              /\ user_sessions' = user_sessions
              /\ st.selected # {} =>
                    /\ new.mode = "remove_confirm"
                    /\ Len(new.link_ids) = Cardinality(st.selected)
                    /\ \A k \in 1..Len(new.link_ids) :
                          new.link_ids[k] = st.rows[nth(k) + 1].id
              /\ st.selected = {} =>
                    /\ new = NoSelect
                    /\ last'.path # "delete_confirmation"]_vars

\* C30 witness: Done with two links selected left a confirmation pending
\* for both, and the tables still hold them.
C30_Witness ==
    /\ last.op = "cb_msel_done"
    /\ last.path = "delete_confirmation"
    /\ Len(select_state[last.uid].link_ids) = 2
    /\ \A k \in 1..2 : \E r \in Range(invite_links) :
          r.id = select_state[last.uid].link_ids[k]

C32_LoginOnlyWithoutSession ==
    [][last'.op = "login_cmd"
        => /\ user_sessions' = user_sessions
           /\ HasSession(dispatch.uid) => login_state' = login_state]_vars

\* C32 (amended): /login changes no Session row; it leaves login_state as it
\* is when a user client was obtained for the sender, and puts the sender in
\* step phone when none was obtained, which is the case whenever the sender
\* has neither a connected cached client nor a Session row, and also when
\* the row exists but the connect fails or the stored key is not authorized.
C32_LoginUnlessClientObtained ==
    [][last'.op = "login_cmd"
        => LET uid == dispatch.uid
               c == USER_CLIENT_CACHE[uid]
               local == user_sessions[uid].session_file
           IN  /\ user_sessions' = user_sessions
               /\ last'.client = "ok" => login_state' = login_state
               /\ last'.client = "fail" => login_state'[uid].step = "phone"
               /\ (~(c.present /\ c.connected) /\ ~HasSession(uid))
                     => last'.client = "fail"
               /\ (~(c.present /\ c.connected) /\ local \notin authorized_keys)
                     => last'.client = "fail"
               /\ "connect" \in last'.calls
                     /\ "is_user_authorized" \notin last'.calls
                     => last'.client = "fail"]_vars

\* a /login of an idle user whose Session row is kept, and who is in step
\* phone afterwards because no client could be obtained from the row
C32_Witness ==
    /\ last.op = "login_cmd"
    /\ last.step = "idle"
    /\ last.client = "fail"
    /\ user_sessions[last.uid] # NoRow
    /\ login_state[last.uid].step = "phone"

\* C33: every connect made for a user (get_user_client, resend, and the
\* phone, OTP and 2FA steps of login_flow) makes at most 'retries' connect
\* attempts, succeeds only when the client is connected, and fails only
\* after 'retries' attempts of which none connected.
C33_EveryConnectRetriesBounded ==
    last.op = "connect"
        => LET first == Head(last.connects)
               results == Tail(last.connects)
               n == last.arg
           IN  /\ n <= retries
               /\ last.client = "ok"
                     => IF n = 0 THEN first = "connected"
                        ELSE results[n] = "connected"
               /\ last.client = "fail"
                     => /\ n = retries
                        /\ \A k \in 1..retries : results[k] # "connected"

\* C34: a page context appears under a message only in a step in which the
\* sync of its user has ended (the last iteration of its loop, or its early
\* return), never while the sync runs; its offset is 0, its page_size 15, and
\* its total is the number of joins rows of the user and the link inside the
\* window in table joins as that step leaves it.
C34_TotalCountedAfterSync ==
    [][\A uid \in Users, m \in MsgIds :
          (stats_pages[uid][m] = NoPage /\ stats_pages'[uid][m] # NoPage)
              => LET ctx == stats_pages'[uid][m]
                     t == sync_task[uid]
                 IN  /\ ctx.offset = 0
                     /\ ctx.page_size = 15
                     /\ ~sync_task'[uid].active
                     /\ t.active => /\ last'.op = "sync_importers_to_db"
                                    /\ t.i = Len(t.rows)
                     /\ ctx.total =
                           Cardinality(
                               {j \in joins' :
                                   /\ j.user_id = uid
                                   /\ j.invite_link_id = ctx.link_id
                                   /\ ctx.since # 0 => j.joined_at >= ctx.since
                                   /\ ctx.until # 0 => j.joined_at <= ctx.until})]_vars

\* the last iteration of a sync has replaced the joins of the link asked
\* for, and the page opened in that step counts the rows it stored
C34_Witness ==
    /\ last.op = "sync_importers_to_db"
    /\ last.path = "replaced"
    /\ \E m \in MsgIds :
          /\ stats_pages[last.uid][m].link_id = last.arg
          /\ stats_pages[last.uid][m].total >= 1
          /\ stats_pages[last.uid][m].total =
                Cardinality({a \in Accounts \ {0} :
                                \E x \in importers[last.arg] : x.user_id = a})
          /\ page_kb[last.uid][m] # {}

\* C35: a page context opened by a link button under the selection message
\* of /stats carries label "All time" and no since, and one opened under the
\* selection message of /hour_status carries label "Last 1 hour" and the
\* since of that command, whichever stats command the user sent last.
C35_PageCarriesWindowOfItsCommand ==
    \A uid \in Users, m \in MsgIds :
        stats_pages[uid][m] # NoPage
            => IF m = 1
               THEN /\ stats_pages[uid][m].label = "All time"
                    /\ stats_pages[uid][m].since = 0
               ELSE /\ stats_pages[uid][m].label = "Last 1 hour"
                    /\ stats_pages[uid][m].since # 0

\* C36: whatever link id the callback data of user A carry, a link of
\* another user included, the total of the page opened and the count and
\* rows of the page query are made of joins rows whose user_id is A only (none
\* when the link is not A's); and an iteration of A's sync changes only
\* joins rows whose user_id is A and whose link is a stored link of A.
C36_StatsShowOnlyOwnJoins ==
    [][/\ \A uid \in Users, m \in MsgIds :
             (stats_pages[uid][m] = NoPage /\ stats_pages'[uid][m] # NoPage)
                 => LET ctx == stats_pages'[uid][m]
                    IN  /\ ctx.total <=
                              Cardinality({j \in joins' :
                                              /\ j.user_id = uid
                                              /\ j.invite_link_id = ctx.link_id})
                        /\ (\A k \in DOMAIN invite_links :
                               invite_links[k].id = ctx.link_id
                                   => invite_links[k].user_id # uid)
                              => ctx.total = 0
       /\ last'.op = "stats_queries"
             => /\ \A j \in last'.query.fetched : j.user_id = last'.uid
                /\ last'.query.count <=
                      Cardinality({j \in joins : j.user_id = last'.uid})
                /\ (\A k \in DOMAIN invite_links :
                       invite_links[k].id = last'.arg
                           => invite_links[k].user_id # last'.uid)
                      => last'.query.count = 0 /\ last'.query.fetched = {}
       /\ last'.op = "sync_importers_to_db"
             => \A j \in (joins' \ joins) \cup (joins \ joins') :
                   /\ j.user_id = last'.uid
                   /\ \E k \in DOMAIN invite_links :
                         /\ invite_links[k].id = j.invite_link_id
                         /\ invite_links[k].user_id = last'.uid]_vars

\* user 1 has opened a page with the id of a link of user 2 that has joins
\* rows (of user 2): the total is 0, and the sync replaced rows of user 1
C36_Witness ==
    /\ last.op = "sync_importers_to_db"
    /\ last.path = "replaced"
    /\ \E m \in MsgIds :
          /\ stats_pages[last.uid][m] # NoPage
          /\ stats_pages[last.uid][m].total = 0
          /\ \E k \in DOMAIN invite_links :
                /\ invite_links[k].id = stats_pages[last.uid][m].link_id
                /\ invite_links[k].user_id # last.uid
          /\ \E j \in joins :
                /\ j.invite_link_id = stats_pages[last.uid][m].link_id
                /\ j.user_id # last.uid

\* C37: a sync iteration that skips its link (peer resolution or the
\* importer request failed) changes no joins row, no later iteration of the
\* run changes the rows of a link the run skipped, and a stats:<id> callback
\* whose sync returns early (no link, or no user client) changes no joins row.
C37_SkippedLinksKeepJoins ==
    [][/\ (last'.op = "sync_importers_to_db" /\ last'.path = "skipped")
             => joins' = joins
       /\ last'.op = "sync_importers_to_db"
             => \A l \in last'.sel :
                   {j \in joins' : j.invite_link_id = l}
                       = {j \in joins : j.invite_link_id = l}
       /\ (last'.op = "cb_stats_link"
              /\ last'.path \in {"no_links", "client_error"})
             => /\ joins' = joins
                /\ ~sync_task'[last'.uid].active]_vars

\* a run has ended that skipped one link of the user, which keeps its old
\* joins row, and replaced the rows of another link by different ones
C37_Witness ==
    /\ last.op = "sync_importers_to_db"
    /\ ~sync_task[last.uid].active
    /\ \E l \in last.sel \cup (IF last.path = "skipped" THEN {last.arg} ELSE {}) :
          /\ StoredJoin(l) \in joins
          /\ \E k \in StoredIds :
                /\ StoredOwner(k) = last.uid
                /\ StoredJoin(k) \notin joins
                /\ \E j \in joins : j.invite_link_id = k

\* C38: when the handler of a code resumes after the attempt was cancelled
\* by /stoplogin (the user has no login_state entry and no Session row any
\* more), it leaves the user without a Session row.
C38_CancelledAttemptPersistsNothing ==
    [][\A uid \in Users :
          (/\ flow_task[uid].active
           /\ ~flow_task'[uid].active
           /\ login_state[uid] = NoEntry
           /\ user_sessions[uid] = NoRow)
              => user_sessions'[uid] = NoRow]_vars

\* C39: when the handler of a code resumes after a /login has started a
\* newer attempt (the user's login_state entry is in step phone again), it
\* leaves that entry as it is.
C39_SupersededHandlerKeepsNewerProgress ==
    [][\A uid \in Users :
          (/\ flow_task[uid].active
           /\ ~flow_task'[uid].active
           /\ login_state[uid].step = "phone")
              => login_state'[uid] = login_state[uid]]_vars

\* C40: while a user has no Session row (after a completed logout_confirm
\* and before the next successful login), no step changes the invite_links
\* rows or the joins rows of that user.
C40_StoreChangesOnlyWithSession ==
    [][\A uid \in Users :
          user_sessions[uid] = NoRow
              => /\ SelectSeq(invite_links', LAMBDA r : r.user_id = uid)
                       = SelectSeq(invite_links, LAMBDA r : r.user_id = uid)
                 /\ {j \in joins' : j.user_id = uid}
                       = {j \in joins : j.user_id = uid}]_vars

====
